---- MODULE Spec2Model ----
(***************************************************************************)
(* Master-file (ledger) merge engine of excel-report-manager.              *)
(*                                                                         *)
(* Upload.tsx processFile maps the rows of an uploaded sheet to MergedRow  *)
(* objects; masterFileService.ts mergeIntoMasterFile / mergeRowData fold   *)
(* them into master.xlsx; updateOrderInMasterFile patches one row.         *)
(*                                                                         *)
(* Text is a sequence of one-character strings so that toLowerCase, trim   *)
(* and parseFloat are computed character by character.  Numbers are        *)
(* fixed-point hundredths (950.00 is 95000).  A cell value is a record     *)
(* [t, n, s]: t = "s" for a JS string held in s, t = "n" for a JS number   *)
(* held in n.  A JS object is a function from property names to values;    *)
(* a property that is undefined is outside the DOMAIN.                     *)
(***************************************************************************)
EXTENDS Integers, Sequences, FiniteSets, TLC

\* ------------------------------------------------------------------ text

Digits == <<"0", "1", "2", "3", "4", "5", "6", "7", "8", "9">>

IsDigit(c) == \E i \in 1..10 : Digits[i] = c

DigitVal(c) == (CHOOSE i \in 1..10 : Digits[i] = c) - 1

IsSpace(c) == c = " "

UpperLetters ==
  <<"A", "B", "C", "D", "E", "F", "G", "H", "I", "J", "K", "L", "M",
    "N", "O", "P", "Q", "R", "S", "T", "U", "V", "W", "X", "Y", "Z">>

LowerLetters ==
  <<"a", "b", "c", "d", "e", "f", "g", "h", "i", "j", "k", "l", "m",
    "n", "o", "p", "q", "r", "s", "t", "u", "v", "w", "x", "y", "z">>

\* String.prototype.toLowerCase on one character
LowerChar(c) ==
  IF \E i \in 1..26 : UpperLetters[i] = c
  THEN LowerLetters[CHOOSE i \in 1..26 : UpperLetters[i] = c]
  ELSE c

toLowerCase(s) == [i \in 1..Len(s) |-> LowerChar(s[i])]

RECURSIVE TrimLeft(_)
TrimLeft(s) ==
  IF s # <<>> /\ IsSpace(Head(s)) THEN TrimLeft(Tail(s)) ELSE s

RECURSIVE TrimRight(_)
TrimRight(s) ==
  IF s # <<>> /\ IsSpace(s[Len(s)]) THEN TrimRight(SubSeq(s, 1, Len(s) - 1)) ELSE s

\* String.prototype.trim
trim(s) == TrimRight(TrimLeft(s))

\* str.replace(/\s+/g, ' '): every run of white space becomes one space
RECURSIVE CollapseSpaces(_)
CollapseSpaces(s) ==
  IF s = <<>> THEN <<>>
  ELSE IF IsSpace(Head(s))
       THEN <<" ">> \o CollapseSpaces(TrimLeft(s))
       ELSE <<Head(s)>> \o CollapseSpaces(Tail(s))

\* longest prefix of digits
RECURSIVE DigitPrefix(_)
DigitPrefix(s) ==
  IF s # <<>> /\ IsDigit(Head(s)) THEN <<Head(s)>> \o DigitPrefix(Tail(s)) ELSE <<>>

RECURSIVE DigitsValue(_)
DigitsValue(s) ==
  IF s = <<>> THEN 0 ELSE DigitsValue(SubSeq(s, 1, Len(s) - 1)) * 10 + DigitVal(s[Len(s)])

\* hundredths carried by the fraction digits (digits past the second are dropped)
FractionValue(f) ==
  IF Len(f) = 0 THEN 0
  ELSE IF Len(f) = 1 THEN DigitVal(f[1]) * 10
  ELSE DigitVal(f[1]) * 10 + DigitVal(f[2])

\* parseFloat: longest prefix [-] digits [. digits]; NaN when there is none
parseFloat(s) ==
  LET neg   == s # <<>> /\ Head(s) = "-"
      body  == IF neg THEN Tail(s) ELSE s
      ip    == DigitPrefix(body)
      rest  == SubSeq(body, Len(ip) + 1, Len(body))
      fp    == IF rest # <<>> /\ Head(rest) = "." THEN DigitPrefix(Tail(rest)) ELSE <<>>
      mag   == DigitsValue(ip) * 100 + FractionValue(fp)
  IN  [isNaN |-> ip = <<>> /\ fp = <<>>, v |-> IF neg THEN 0 - mag ELSE mag]


\* ---------------------------------------------------------------- values

Str(s) == [t |-> "s", n |-> 0, s |-> s]

Num(n) == [t |-> "n", n |-> n, s |-> <<>>]

EmptyStr == Str(<<>>)

\* JS truthiness of a string or number
Truthy(v) == IF v.t = "n" THEN v.n # 0 ELSE v.s # <<>>

\* o[k] !== undefined
Defined(o, k) == k \in DOMAIN o

\* o[k] is truthy (an undefined property is falsy)
TruthyAt(o, k) == Defined(o, k) /\ Truthy(o[k])

\* o[k] = v
SetProp(o, k, v) == [x \in DOMAIN o \cup {k} |-> IF x = k THEN v ELSE o[x]]

\* { ...a, ...b }
Spread(a, b) == [x \in DOMAIN a \cup DOMAIN b |-> IF x \in DOMAIN b THEN b[x] ELSE a[x]]

RECURSIVE Decimal(_)
Decimal(k) == IF k < 10 THEN <<Digits[k + 1]>> ELSE Decimal(k \div 10) \o <<Digits[(k % 10) + 1]>>

\* String(v) and template-literal interpolation of a value
ToText(v) ==
  IF v.t = "s" THEN v.s
  ELSE LET a  == IF v.n < 0 THEN 0 - v.n ELSE v.n
           f  == a % 100
           fp == IF f = 0 THEN <<>>
                 ELSE IF f % 10 = 0 THEN <<".", Digits[(f \div 10) + 1]>>
                 ELSE <<".", Digits[(f \div 10) + 1], Digits[(f % 10) + 1]>>
       IN  (IF v.n < 0 THEN <<"-">> ELSE <<>>) \o Decimal(a \div 100) \o fp

\* apply the assignments o[a.k] = a.v of a list in order
RECURSIVE Assign(_, _)
Assign(o, list) ==
  IF list = <<>> THEN o ELSE Assign(SetProp(o, Head(list).k, Head(list).v), Tail(list))

\* ------------------------------------------------------- column names

\* the characters of the column names and header texts that occur
Spell(name) ==
  CASE name = "Order ID" -> <<"O","r","d","e","r"," ","I","D">>
    [] name = "order_id" -> <<"o","r","d","e","r","_","i","d">>
    [] name = "Sub ID"   -> <<"S","u","b"," ","I","D">>
    [] name = "Item"     -> <<"I","t","e","m">>
    [] name = "Qty"      -> <<"Q","t","y">>
    [] name = "Status"   -> <<"S","t","a","t","u","s">>
    [] name = "Cost"     -> <<"C","o","s","t">>
    [] name = "Net Amt"  -> <<"N","e","t"," ","A","m","t">>
    [] name = "net  amt" -> <<"n","e","t"," "," ","a","m","t">>
    [] name = "Mode"     -> <<"M","o","d","e">>
    [] name = "CGST"     -> <<"C","G","S","T">>
    [] name = "Inv"      -> <<"I","n","v">>
    [] name = "Refund"   -> <<"R","e","f","u","n","d">>
    [] name = "Reason"   -> <<"R","e","a","s","o","n">>
    [] name = "Note"     -> <<"N","o","t","e">>
    [] name = "Date"     -> <<"D","a","t","e">>
    [] name = "Order Id" -> <<"O","r","d","e","r"," ","I","d">>
    [] name = "OrderId"  -> <<"O","r","d","e","r","I","d">>
    [] name = "Order-ID" -> <<"O","r","d","e","r","-","I","D">>
    [] OTHER             -> <<>>

\* sheet column order, which is the Object.keys order of a parsed row
ColumnOrder ==
  <<"Order ID", "order_id", "Sub ID", "Item", "Qty", "Status", "Cost",
    "Net Amt", "net  amt", "Mode", "CGST", "Inv", "Refund", "Reason", "Note",
    "Date", "Order Id", "OrderId", "Order-ID">>

\* Object.keys(row).find(k => Test(k)); "" when nothing is found
FindKey(row, Test(_)) ==
  LET hits == {i \in 1..Len(ColumnOrder) : ColumnOrder[i] \in DOMAIN row /\ Test(ColumnOrder[i])}
  IN  IF hits = {} THEN ""
      ELSE ColumnOrder[CHOOSE i \in hits : \A j \in hits : i <= j]

\* --------------------------------------------------- Upload.tsx helpers

\* normalize inside getValue
normalize(str) == trim(CollapseSpaces(toLowerCase(str)))

\* .replace(/\s/g, ''): the class without "_" and "-"
StripSpacesOnly(str) == SelectSeq(str, LAMBDA c : ~IsSpace(c))

\* .replace(/[_\s-]/g, '')
StripSeparators(str) == SelectSeq(str, LAMBDA c : ~(c = "_" \/ c = "-" \/ IsSpace(c)))

\* row[k] is neither undefined, null nor ''
CellFilled(row, k) == k \in DOMAIN row /\ row[k] # <<>>

getValue(row, headerName) ==
  IF headerName = "" THEN <<>>
  ELSE LET normalizedHeader == normalize(Spell(headerName))
           key == FindKey(row, LAMBDA k : normalize(Spell(k)) = normalizedHeader)
           partialMatch == FindKey(row, LAMBDA k :
                             StripSeparators(normalize(Spell(k))) = StripSeparators(normalizedHeader))
       IN  IF CellFilled(row, headerName) THEN row[headerName]
           ELSE IF key # "" /\ CellFilled(row, key) THEN row[key]
           ELSE IF partialMatch # "" /\ CellFilled(row, partialMatch) THEN row[partialMatch]
           ELSE <<>>

parseNumber(value) ==
  IF value = <<>> THEN 0
  ELSE LET cleaned == SelectSeq(value, LAMBDA c : IsDigit(c) \/ c = "." \/ c = "-")
           num == parseFloat(cleaned)
       IN  IF num.isNaN THEN 0 ELSE num.v

\* YYYY-MM-DD
IsIsoDate(value) ==
  /\ Len(value) = 10
  /\ value[5] = "-" /\ value[8] = "-"
  /\ \A i \in {1, 2, 3, 4, 6, 7, 9, 10} : IsDigit(value[i])

\* parseDate on the date texts the model feeds it: empty, ISO day, or text
\* that new Date() rejects
parseDate(value) ==
  IF value = <<>> THEN <<>>
  ELSE IF IsIsoDate(value) THEN SubSeq(value, 1, 10)
  ELSE value

\* headers.f, "" when the mapping has no entry
Hdr(headers, f) == IF f \in DOMAIN headers THEN headers[f] ELSE ""


\* ----------------------------------------------- processFile, row mapping

\* mergedRow.f = getValue(row, headers.f)
TextField(row, headers, f) == [k |-> f, v |-> Str(getValue(row, Hdr(headers, f)))]

\* mergedRow.f = parseNumber(getValue(row, headers.f))
NumField(row, headers, f) == [k |-> f, v |-> Num(parseNumber(getValue(row, Hdr(headers, f))))]

\* mergedRow.f = parseDate(getValue(row, headers.f))
DateField(row, headers, f) == [k |-> f, v |-> Str(parseDate(getValue(row, Hdr(headers, f))))]

\* mergedRow.status = getValue(row, headers.status).toLowerCase()
StatusField(row, headers) ==
  [k |-> "status", v |-> Str(toLowerCase(getValue(row, Hdr(headers, "status"))))]

\* mergedRow.quantity = parseNumber(getValue(row, headers.quantity)) || 1
QuantityField(row, headers) ==
  LET q == parseNumber(getValue(row, Hdr(headers, "quantity")))
  IN  [k |-> "quantity", v |-> Num(IF q # 0 THEN q ELSE 100)]

\* if (headers.f) <assignment>
IfHeader(headers, f, assignment) == IF Hdr(headers, f) # "" THEN <<assignment>> ELSE <<>>

SalesFields(row, headers) ==
  << TextField(row, headers, "productName"),
     TextField(row, headers, "sku"),
     TextField(row, headers, "skuName"),
     QuantityField(row, headers),
     StatusField(row, headers),
     TextField(row, headers, "customerName"),
     TextField(row, headers, "customerState"),
     TextField(row, headers, "customerCity"),
     TextField(row, headers, "customerPincode"),
     NumField(row, headers, "wholesalePrice"),
     NumField(row, headers, "sellingPrice"),
     NumField(row, headers, "shippingCharge") >>

PaymentFields(row, headers) ==
  IfHeader(headers, "productName", TextField(row, headers, "productName"))
  \o IfHeader(headers, "status", StatusField(row, headers))
  \o << TextField(row, headers, "paymentMode"),
        TextField(row, headers, "hsn"),
        NumField(row, headers, "wholesalePrice"),
        NumField(row, headers, "shippingCharge"),
        NumField(row, headers, "tcs"),
        NumField(row, headers, "tds"),
        NumField(row, headers, "commission"),
        NumField(row, headers, "shipperCharge"),
        NumField(row, headers, "netAmount") >>
  \o IfHeader(headers, "customerCity", TextField(row, headers, "customerCity"))
  \o IfHeader(headers, "customerPincode", TextField(row, headers, "customerPincode"))
  \o IfHeader(headers, "customerState", TextField(row, headers, "customerState"))

GstFields(row, headers) ==
  IfHeader(headers, "status", StatusField(row, headers))
  \o << TextField(row, headers, "invoiceNumber"),
        DateField(row, headers, "invoiceDate"),
        TextField(row, headers, "hsn"),
        NumField(row, headers, "gstRate") >>
  \o IfHeader(headers, "sku", TextField(row, headers, "sku"))
  \o IfHeader(headers, "productName", TextField(row, headers, "productName"))
  \o IfHeader(headers, "quantity", QuantityField(row, headers))
  \o IfHeader(headers, "customerState", TextField(row, headers, "customerState"))
  \o << NumField(row, headers, "taxableValue"),
        NumField(row, headers, "cgst"),
        NumField(row, headers, "igst"),
        NumField(row, headers, "sgst"),
        NumField(row, headers, "invoiceAmount") >>

RefundFields(row, headers) ==
  << NumField(row, headers, "refundAmount"),
     NumField(row, headers, "deductionAmount"),
     TextField(row, headers, "refundReason"),
     DateField(row, headers, "refundDate") >>

\* the raw row as object properties (sheet_to_json with raw: false gives text)
RawProps(row) == [c \in DOMAIN row |-> Str(row[c])]

\* the MergedRow processFile builds from one accepted row
MapRow(row, headers, uploadType) ==
  LET orderId    == getValue(row, Hdr(headers, "orderId"))
      sub        == getValue(row, Hdr(headers, "subOrderId"))
      subOrderId == IF sub # <<>> THEN sub ELSE orderId
      orderDate  == parseDate(getValue(row, Hdr(headers, "orderDate")))
      base == Spread([orderId |-> Str(orderId), subOrderId |-> Str(subOrderId),
                      orderDate |-> Str(orderDate)],
                     RawProps(row))
  IN  Assign(base,
             CASE uploadType = "sales"   -> SalesFields(row, headers)
               [] uploadType = "payment" -> PaymentFields(row, headers)
               [] uploadType = "gst"     -> GstFields(row, headers)
               [] uploadType = "refund"  -> RefundFields(row, headers))

\* the template literal with .trim() only
KeyOfCaseSensitive(orderId, subOrderId) == trim(orderId \o <<"_">> \o subOrderId)

\* `${orderId}_${subOrderId}`.toLowerCase().trim()
KeyOf(orderId, subOrderId) == trim(toLowerCase(orderId \o <<"_">> \o subOrderId))

\* uniqueKey of a raw row in processFile
uniqueKey(row, headers) ==
  LET orderId == getValue(row, Hdr(headers, "orderId"))
      sub     == getValue(row, Hdr(headers, "subOrderId"))
  IN  KeyOf(orderId, IF sub # <<>> THEN sub ELSE orderId)

\* !orderId || orderId.trim() === ''
RowRejected(row, headers) == trim(getValue(row, Hdr(headers, "orderId"))) = <<>>

\* the row loop leaving at the first row without order id
RECURSIVE RowLoopStoppingAtRejected(_, _, _, _)
RowLoopStoppingAtRejected(rows, headers, uploadType, acc) ==
  IF rows = <<>> THEN acc
  ELSE LET row == Head(rows)
       IN  IF RowRejected(row, headers)
           THEN [acc EXCEPT !.errorCount = @ + 1]
           ELSE RowLoopStoppingAtRejected(Tail(rows), headers, uploadType,
                  IF uniqueKey(row, headers) \in acc.processedKeys
                  THEN [acc EXCEPT !.duplicateCount = @ + 1]
                  ELSE [acc EXCEPT !.processedKeys = @ \cup {uniqueKey(row, headers)},
                                   !.mergedRows = Append(@, MapRow(row, headers, uploadType)),
                                   !.successCount = @ + 1])

\* the row loop without the processedKeys check
RECURSIVE RowLoopKeepingDuplicates(_, _, _, _)
RowLoopKeepingDuplicates(rows, headers, uploadType, acc) ==
  IF rows = <<>> THEN acc
  ELSE LET row == Head(rows)
           next ==
             IF RowRejected(row, headers)
             THEN [acc EXCEPT !.errorCount = @ + 1]
             ELSE [acc EXCEPT !.processedKeys = @ \cup {uniqueKey(row, headers)},
                              !.mergedRows = Append(@, MapRow(row, headers, uploadType)),
                              !.successCount = @ + 1]
       IN  RowLoopKeepingDuplicates(Tail(rows), headers, uploadType, next)

\* the row loop of processFile: rows without order id are counted as errors,
\* rows whose key was already processed are counted as duplicates and skipped
RECURSIVE RowLoop(_, _, _, _)
RowLoop(rows, headers, uploadType, acc) ==
  IF rows = <<>> THEN acc
  ELSE LET row == Head(rows)
           next ==
             IF RowRejected(row, headers)
             THEN [acc EXCEPT !.errorCount = @ + 1]
             ELSE IF uniqueKey(row, headers) \in acc.processedKeys
             THEN [acc EXCEPT !.duplicateCount = @ + 1]
             ELSE [acc EXCEPT !.processedKeys = @ \cup {uniqueKey(row, headers)},
                              !.mergedRows = Append(@, MapRow(row, headers, uploadType)),
                              !.successCount = @ + 1]
       IN  RowLoop(Tail(rows), headers, uploadType, next)

mapRows(rows, headers, uploadType) ==
  RowLoop(rows, headers, uploadType,
          [mergedRows |-> <<>>, errorCount |-> 0, successCount |-> 0,
           duplicateCount |-> 0, processedKeys |-> {}])


\* ------------------------------------------- masterFileService.ts, merge

\* if (newRow.f) merged.f = newRow.f
CopyIfTruthy(merged, newRow, f) ==
  IF TruthyAt(newRow, f) THEN SetProp(merged, f, newRow[f]) ELSE merged

\* merged.f += newRow.f in place of the assignment
CopyIfDefinedAdding(merged, newRow, f) ==
  IF Defined(newRow, f)
  THEN SetProp(merged, f,
               IF Defined(merged, f) /\ merged[f].t = "n" /\ newRow[f].t = "n"
               THEN Num(merged[f].n + newRow[f].n) ELSE newRow[f])
  ELSE merged

\* if (newRow.f !== undefined && newRow.f !== null) merged.f = newRow.f
CopyIfDefined(merged, newRow, f) ==
  IF Defined(newRow, f) THEN SetProp(merged, f, newRow[f]) ELSE merged

T(f) == [f |-> f, test |-> "truthy"]

D(f) == [f |-> f, test |-> "defined"]

\* the guarded assignments of each fileType branch of mergeRowData, in order
BranchCopies(fileType) ==
  CASE fileType = "sales" ->
         << T("productName"), T("sku"), T("skuName"), D("quantity"), T("status"),
            T("customerName"), T("customerState"), T("customerCity"),
            T("customerPincode"), D("wholesalePrice"), D("sellingPrice"),
            D("shippingCharge"), T("orderDate") >>
    [] fileType = "payment" ->
         << T("paymentMode"), T("hsn"), D("commission"), D("tcs"), D("tds"),
            D("shipperCharge"), D("netAmount"),
            D("wholesalePrice"), D("shippingCharge"), T("customerCity"),
            T("customerPincode"), T("customerState"), T("productName"), T("status") >>
    [] fileType = "gst" ->
         << T("invoiceNumber"), T("invoiceDate"), T("hsn"), D("gstRate"),
            D("taxableValue"), D("cgst"), D("sgst"), D("igst"), D("invoiceAmount"),
            T("sku"), T("productName"), D("quantity"), T("customerState"), T("status") >>
    [] fileType = "refund" ->
         << D("refundAmount"), D("deductionAmount"), T("refundReason"),
            T("refundDate"), D("gstRefund") >>

RECURSIVE ApplyCopies(_, _, _)
ApplyCopies(merged, newRow, copies) ==
  IF copies = <<>> THEN merged
  ELSE LET c == Head(copies)
       IN  ApplyCopies(IF c.test = "truthy" THEN CopyIfTruthy(merged, newRow, c.f)
                       ELSE CopyIfDefined(merged, newRow, c.f),
                       newRow, Tail(copies))

\* the raw-data loop without the `key in merged` test
AddMissingKeysOverwriting(merged, newRow) ==
  [x \in DOMAIN merged \cup (DOMAIN newRow \ {"orderId", "subOrderId"}) |->
     IF x \in DOMAIN newRow \ {"orderId", "subOrderId"} THEN newRow[x] ELSE merged[x]]

\* the raw-data loop: a key of newRow that merged lacks is added
AddMissingKeys(merged, newRow) ==
  [x \in DOMAIN merged \cup (DOMAIN newRow \ {"orderId", "subOrderId"}) |->
     IF x \in DOMAIN merged THEN merged[x] ELSE newRow[x]]

\* existing.subOrderId || existing.orderId
SubOrOrder(row) == IF TruthyAt(row, "subOrderId") THEN row["subOrderId"] ELSE row["orderId"]

mergeRowData(existing, newRow, fileType) ==
  LET kept     == SetProp(SetProp(existing, "orderId", existing["orderId"]),
                          "subOrderId", SubOrOrder(existing))
      branch   == ApplyCopies(kept, newRow, BranchCopies(fileType))
      always   == ApplyCopies(branch, newRow, << D("status"), D("gstRefund") >>)
  IN  AddMissingKeys(always, newRow)

\* `${row.orderId}_${row.subOrderId || row.orderId}`
SortKey(row) == ToText(row["orderId"]) \o <<"_">> \o ToText(SubOrOrder(row))

\* the Map key without the case folding
rowKeyCaseSensitive(row) == trim(SortKey(row))

\* ... .toLowerCase().trim(), the Map key of a row
rowKey(row) == trim(toLowerCase(SortKey(row)))

\* ------------------------------------------------------- JS Map, sorting

\* a Map is its entries [key, value] in insertion order
MapHas(map, key) == \E i \in 1..Len(map) : map[i].key = key

MapGet(map, key) == map[CHOOSE i \in 1..Len(map) : map[i].key = key].value

MapSet(map, key, value) ==
  IF MapHas(map, key)
  THEN [i \in 1..Len(map) |-> IF map[i].key = key THEN [key |-> key, value |-> value] ELSE map[i]]
  ELSE Append(map, [key |-> key, value |-> value])

MapValues(map) == [i \in 1..Len(map) |-> map[i].value]

\* collation weight of a character: space, punctuation, digits, letters
CollRank(c) ==
  CASE c = " " -> 1 [] c = "_" -> 2 [] c = "-" -> 3 [] c = "." -> 4
    [] IsDigit(c) -> 10 + DigitVal(c)
    [] OTHER -> LET l == LowerChar(c)
                IN  IF \E i \in 1..26 : LowerLetters[i] = l
                    THEN 30 + (CHOOSE i \in 1..26 : LowerLetters[i] = l)
                    ELSE 5

IsUpper(c) == \E i \in 1..26 : UpperLetters[i] = c

\* lexicographic comparison of two weight sequences: -1, 0 or 1
RECURSIVE CompareWeights(_, _)
CompareWeights(a, b) ==
  IF a = <<>> /\ b = <<>> THEN 0
  ELSE IF a = <<>> THEN 0 - 1
  ELSE IF b = <<>> THEN 1
  ELSE IF Head(a) < Head(b) THEN 0 - 1
  ELSE IF Head(a) > Head(b) THEN 1
  ELSE CompareWeights(Tail(a), Tail(b))

\* String.prototype.localeCompare: letters compare without case first,
\* lower case before upper case breaks the tie
localeCompare(a, b) ==
  LET primary == CompareWeights([i \in 1..Len(a) |-> CollRank(a[i])],
                                [i \in 1..Len(b) |-> CollRank(b[i])])
  IN  IF primary # 0 THEN primary
      ELSE CompareWeights([i \in 1..Len(a) |-> IF IsUpper(a[i]) THEN 1 ELSE 0],
                          [i \in 1..Len(b) |-> IF IsUpper(b[i]) THEN 1 ELSE 0])

\* insert row into an already sorted list, after the rows that do not compare greater
RECURSIVE InsertSorted(_, _)
InsertSorted(sorted, row) ==
  IF sorted = <<>> THEN <<row>>
  ELSE IF localeCompare(SortKey(Head(sorted)), SortKey(row)) <= 0
       THEN <<Head(sorted)>> \o InsertSorted(Tail(sorted), row)
       ELSE <<row>> \o sorted

\* rows.sort((a, b) => aKey.localeCompare(bKey)), a stable sort
RECURSIVE SortRows(_)
SortRows(rows) ==
  IF rows = <<>> THEN <<>>
  ELSE InsertSorted(SortRows(SubSeq(rows, 1, Len(rows) - 1)), rows[Len(rows)])


\* ------------------------------------- masterFileService.ts, master file

\* existingRows.forEach(row => existingMap.set(key, { ...row }))
RECURSIVE IndexRows(_, _)
IndexRows(rows, map) ==
  IF rows = <<>> THEN map
  ELSE IndexRows(Tail(rows), MapSet(map, rowKey(Head(rows)), Head(rows)))

\* newRows.forEach(...): st.existingMap and st.newRowsMap after the rows
RECURSIVE MergeLoop(_, _, _)
MergeLoop(newRows, fileType, st) ==
  IF newRows = <<>> THEN st
  ELSE LET newRow == Head(newRows)
           key    == rowKey(newRow)
           next ==
             IF ~TruthyAt(newRow, "orderId") THEN st
             ELSE IF MapHas(st.existingMap, key)
             THEN [st EXCEPT !.existingMap =
                     MapSet(@, key, mergeRowData(MapGet(@, key), newRow, fileType))]
             ELSE IF MapHas(st.newRowsMap, key)
             THEN [st EXCEPT !.newRowsMap =
                     MapSet(@, key, mergeRowData(MapGet(@, key), newRow, fileType))]
             ELSE [st EXCEPT !.newRowsMap = MapSet(@, key, newRow)]
       IN  MergeLoop(Tail(newRows), fileType, next)

\* the forEach leaving after its first entry
AddNewRowsFirstOnly(existingMap, entries) ==
  IF entries = <<>> \/ MapHas(existingMap, Head(entries).key) THEN existingMap
  ELSE MapSet(existingMap, Head(entries).key, Head(entries).value)

\* newRowsMap.forEach((row, key) => { if (!existingMap.has(key)) existingMap.set(key, row) })
RECURSIVE AddNewRows(_, _)
AddNewRows(existingMap, entries) ==
  IF entries = <<>> THEN existingMap
  ELSE AddNewRows(IF MapHas(existingMap, Head(entries).key) THEN existingMap
                  ELSE MapSet(existingMap, Head(entries).key, Head(entries).value),
                  Tail(entries))

\* Array.from(newRowsMap.values()) in place of the existing map's values
mergedRowsOfNewOnly(existingRows, newRows, fileType) ==
  LET st == MergeLoop(newRows, fileType,
                      [existingMap |-> IndexRows(existingRows, <<>>), newRowsMap |-> <<>>])
  IN  SortRows(MapValues(st.newRowsMap))

\* the rows mergeIntoMasterFile hands to json_to_sheet, given what it read
mergedRowsOf(existingRows, newRows, fileType) ==
  LET st == MergeLoop(newRows, fileType,
                      [existingMap |-> IndexRows(existingRows, <<>>), newRowsMap |-> <<>>])
  IN  SortRows(MapValues(AddNewRows(st.existingMap, st.newRowsMap)))

\* json_to_sheet then sheet_to_json with defval '': the header row is the
\* union of the keys, and a row without a cell under a header reads ''
SheetRows(rows) ==
  LET header == UNION {DOMAIN rows[i] : i \in 1..Len(rows)}
  IN  [i \in 1..Len(rows) |->
         [c \in header |-> IF c \in DOMAIN rows[i] THEN rows[i][c] ELSE EmptyStr]]

\* a search that settles for the first row when no row has the key
findIndexOrFirst(existingRows, key) ==
  LET hits == {i \in 1..Len(existingRows) : rowKey(existingRows[i]) = key}
  IN  IF hits = {} THEN (IF Len(existingRows) > 0 THEN 1 ELSE 0)
      ELSE CHOOSE i \in hits : \A j \in hits : i <= j

\* index of the first row with the key, 0 for findIndex's -1
findIndex(existingRows, key) ==
  LET hits == {i \in 1..Len(existingRows) : rowKey(existingRows[i]) = key}
  IN  IF hits = {} THEN 0 ELSE CHOOSE i \in hits : \A j \in hits : i <= j

\* { ...updates, ...existingRows[orderIndex] }: the spread in the other order
updatedRowsOfExistingWins(existingRows, orderIndex, updates) ==
  LET old        == existingRows[orderIndex]
      updatedRow == SetProp(SetProp(Spread(updates, old), "orderId", old["orderId"]),
                            "subOrderId", SubOrOrder(old))
  IN  SortRows([existingRows EXCEPT ![orderIndex] = updatedRow])

\* the spread without the two id properties written after it
updatedRowsOfPatchWins(existingRows, orderIndex, updates) ==
  SortRows([existingRows EXCEPT ![orderIndex] = Spread(existingRows[orderIndex], updates)])

\* the rows updateOrderInMasterFile hands to json_to_sheet
updatedRowsOf(existingRows, orderIndex, updates) ==
  LET old        == existingRows[orderIndex]
      updatedRow == SetProp(SetProp(Spread(old, updates), "orderId", old["orderId"]),
                            "subOrderId", SubOrOrder(old))
  IN  SortRows([existingRows EXCEPT ![orderIndex] = updatedRow])


\* --------------------------------------------------------------- inputs

MaxRows == 2

MaxOps == 2

Tasks == {"t1", "t2"}

UploadTypes == {"sales", "payment", "gst", "refund"}

\* platform.salesHeaders etc. of the one platform: logical field -> column text
Headers(uploadType) ==
  CASE uploadType = "sales" ->
         [orderId |-> "Order ID", productName |-> "Item", quantity |-> "Qty",
          status |-> "Status", wholesalePrice |-> "Cost"]
    [] uploadType = "payment" ->
         [orderId |-> "Order ID", netAmount |-> "Net Amt", paymentMode |-> "Mode",
          productName |-> "Item"]
    [] uploadType = "gst" ->
         [orderId |-> "Order ID", cgst |-> "CGST", invoiceNumber |-> "Inv"]
    [] uploadType = "refund" ->
         [orderId |-> "Order ID", refundAmount |-> "Refund", refundReason |-> "Reason"]

\* parsed sheet rows (column text -> cell text) an upload of each type may carry
RowPool(uploadType) ==
  CASE uploadType = "sales" ->
         { [c \in {"Order ID", "Item", "Qty", "Status", "Cost"} |->
              CASE c = "Order ID" -> <<"A", "1">> [] c = "Item" -> <<"W">>
                [] c = "Qty" -> <<"3">> [] c = "Status" -> <<"O", "k">>
                [] c = "Cost" -> <<"1", "0">>],
           [c \in {"Order ID", "Item", "Qty", "Status", "Cost"} |->
              CASE c = "Order ID" -> <<"a", "1">> [] c = "Item" -> <<"V">>
                [] c = "Qty" -> <<>> [] c = "Status" -> <<>>
                [] c = "Cost" -> <<>>],
           [c \in {"Order ID", "Item", "Qty", "Status", "Cost"} |->
              CASE c = "Order ID" -> <<"B", "2">> [] c = "Item" -> <<"G">>
                [] c = "Qty" -> <<"0">> [] c = "Status" -> <<>>
                [] c = "Cost" -> <<"5">>] }
    [] uploadType = "payment" ->
         { [c \in {"Order ID", "Net Amt", "Mode"} |->
              CASE c = "Order ID" -> <<"A", "1">> [] c = "Net Amt" -> <<"9", "5", "0", ".", "0", "0">>
                [] c = "Mode" -> <<"U">>],
           [c \in {"Order ID", "net  amt", "Mode"} |->
              CASE c = "Order ID" -> <<"A", "1">> [] c = "net  amt" -> <<>>
                [] c = "Mode" -> <<>>],
           [c \in {"Order ID", "Net Amt", "Item"} |->
              CASE c = "Order ID" -> <<"B", "2">> [] c = "Net Amt" -> <<"7">>
                [] c = "Item" -> <<"X">>] }
    [] uploadType = "gst" ->
         { [c \in {"Order ID", "CGST", "Inv"} |->
              CASE c = "Order ID" -> <<"A", "1">> [] c = "CGST" -> <<"9">>
                [] c = "Inv" -> <<"I", "7">>],
           [c \in {"order_id", "CGST", "Inv"} |->
              CASE c = "order_id" -> <<"A", "1">> [] c = "CGST" -> <<>>
                [] c = "Inv" -> <<>>] }
    [] uploadType = "refund" ->
         { [c \in {"Order ID", "Refund", "Reason"} |->
              CASE c = "Order ID" -> <<"A", "1">> [] c = "Refund" -> <<"5">>
                [] c = "Reason" -> <<"D">>],
           [c \in {"Order ID", "Refund", "Note"} |->
              CASE c = "Order ID" -> <<"B", "2">> [] c = "Refund" -> <<>>
                [] c = "Note" -> <<"n">>] }

\* the sheets of 1..MaxRows rows
Files(uploadType) ==
  UNION {[1..n -> RowPool(uploadType)] : n \in 1..MaxRows}

\* parseFile: sheet_to_json with defval '' gives every row every column of the sheet
parseFile(file) ==
  LET header == UNION {DOMAIN file[i] : i \in 1..Len(file)}
  IN  [i \in 1..Len(file) |->
         [c \in header |-> IF c \in DOMAIN file[i] THEN file[i][c] ELSE <<>>]]

\* the patches updateOrder builds (return stamping) and their targets
UpdatePool ==
  { [orderId |-> <<"A", "1">>, subOrderId |-> <<"A", "1">>,
     updates |-> [f \in {"status", "gstRefund"} |->
                    IF f = "status" THEN Str(<<"r", "e", "t">>) ELSE Num(900)]],
    [orderId |-> <<"b", "2">>, subOrderId |-> <<>>,
     updates |-> [f \in {"status"} |-> Str(<<"r", "e", "t">>)]] }


\* ---------------------------------------------------------------- state

VARIABLES
  store,   \* master.xlsx at the platform's path: [exists, rows]
  tasks,   \* the in-flight call of each task: processFile or updateOrderInMasterFile
  log,     \* the successful master-file writes so far, oldest first
  ops      \* calls started so far

vars == <<store, tasks, log, ops>>

NoProps == [x \in {} |-> EmptyStr]

NoHeaders == [x \in {} |-> ""]

IdleTask ==
  [pc |-> "idle", type |-> "none", uploadType |-> "none", rows |-> <<>>,
   headers |-> NoHeaders, newRows |-> <<>>, key |-> <<>>, updates |-> NoProps,
   existingRows |-> <<>>, readResult |-> "none", readVersion |-> 0, outcome |-> "none"]

\* an idle task that remembers how its last call ended
Ended(outcome) == [IdleTask EXCEPT !.outcome = outcome]

Init ==
  /\ store = [exists |-> FALSE, rows |-> <<>>]
  /\ tasks = [t \in Tasks |-> IdleTask]
  /\ log = <<>>
  /\ ops = 0

\* the ways getDownloadURL / fetch fail in readMasterFile
ReadErrors == {"storage/unauthorized", "CORS", "other"}

\* the reads that did not fail
Genuine == {"ok", "storage/object-not-found"}

\* readMasterFile: what the caller gets for each way the read can go
readMasterFile(st, result) ==
  CASE result = "ok" -> [threw |-> FALSE, rows |-> st.rows]
    [] result = "storage/object-not-found" -> [threw |-> FALSE, rows |-> <<>>]
    [] result = "storage/unauthorized" -> [threw |-> FALSE, rows |-> <<>>]
    [] result = "CORS" -> [threw |-> TRUE, rows |-> <<>>]
    [] result = "other" -> [threw |-> FALSE, rows |-> <<>>]

\* the read results the storage can produce in a state
ReadResults(st) ==
  (IF st.exists THEN {"ok"} ELSE {"storage/object-not-found"}) \cup ReadErrors

\* existingRows of mergeIntoMasterFile after its try/catch around the read
ingestExistingRows(st, result) ==
  LET r == readMasterFile(st, result)
  IN  IF r.threw THEN <<>> ELSE r.rows

\* uploadBytes replaces the object as a whole
uploadBytes(rows) == [exists |-> TRUE, rows |-> SheetRows(rows)]

Keys(rows) == {rowKey(rows[i]) : i \in 1..Len(rows)}

\* a call takes the first free slot: the slots are interchangeable
FreeSlot(t) == tasks[t].pc = "idle" /\ (t = "t2" => tasks["t1"].pc # "idle")

\* processFile up to the first storage call: headers check, parseFile, row loop
BeginIngestWith(t, uploadType, headers, file) ==
  LET rows    == parseFile(file)
  IN  /\ FreeSlot(t)
      /\ trim(Spell(Hdr(headers, "orderId"))) # <<>>
      /\ Len(rows) # 0
      /\ tasks' = [tasks EXCEPT ![t] =
           [IdleTask EXCEPT !.pc = "archive", !.type = "ingest",
                            !.uploadType = uploadType, !.rows = rows,
                            !.headers = headers,
                            !.newRows = mapRows(rows, headers, uploadType).mergedRows]]
      /\ ops' = ops + 1
      /\ UNCHANGED <<store, log>>

\* processFile on the platform whose header maps are Headers
BeginIngest(t, uploadType, file) == BeginIngestWith(t, uploadType, Headers(uploadType), file)

StartIngest(t) ==
  /\ ops < MaxOps
  /\ \E uploadType \in UploadTypes : \E file \in Files(uploadType) :
       BeginIngest(t, uploadType, file)

\* await uploadFileToStorage(file, uploadedFilePath) succeeds
ArchiveDone(t) ==
  /\ tasks[t].pc = "archive"
  /\ tasks' = [tasks EXCEPT ![t].pc = "read"]
  /\ UNCHANGED <<store, log, ops>>

\* await uploadFileToStorage rejects: processFile's catch reports the failure
ArchiveFailed(t) ==
  /\ tasks[t].pc = "archive"
  /\ tasks' = [tasks EXCEPT ![t] = Ended("upload-failed")]
  /\ UNCHANGED <<store, log, ops>>

\* mergeIntoMasterFile: await readMasterFile inside try/catch
IngestRead(t) ==
  /\ tasks[t].pc = "read"
  /\ tasks[t].type = "ingest"
  /\ \E result \in ReadResults(store) :
       tasks' = [tasks EXCEPT ![t].pc = "write",
                              ![t].existingRows = ingestExistingRows(store, result),
                              ![t].readResult = result,
                              ![t].readVersion = Len(log)]
  /\ UNCHANGED <<store, log, ops>>

\* the rows computed from the ledger as it is at the write, not as it was read
RowsToWriteRereading(task) ==
  IF task.type = "ingest"
  THEN mergedRowsOf(store.rows, task.newRows, task.uploadType)
  ELSE IF findIndex(store.rows, task.key) = 0 THEN store.rows
  ELSE updatedRowsOf(store.rows, findIndex(store.rows, task.key), task.updates)

\* the rows a task at its write hands to json_to_sheet
RowsToWrite(task) ==
  IF task.type = "ingest"
  THEN mergedRowsOf(task.existingRows, task.newRows, task.uploadType)
  ELSE updatedRowsOf(task.existingRows, findIndex(task.existingRows, task.key), task.updates)

\* the keys a call contributes: its accepted rows, or the row it patches
OwnKeys(task) ==
  IF task.type = "ingest" THEN Keys(task.newRows) ELSE {task.key}

\* await uploadBytes(fileRef, excelBuffer) resolves
WriteDone(t) ==
  /\ tasks[t].pc = "write"
  /\ store' = uploadBytes(RowsToWrite(tasks[t]))
  /\ log' = Append(log, [task |-> t, type |-> tasks[t].type,
                         uploadType |-> tasks[t].uploadType,
                         rows |-> tasks[t].rows,
                         headers |-> tasks[t].headers,
                         readVersion |-> tasks[t].readVersion,
                         readResult |-> tasks[t].readResult,
                         loadedKeys |-> Keys(tasks[t].existingRows),
                         ownKeys |-> OwnKeys(tasks[t])])
  /\ tasks' = [tasks EXCEPT ![t] = Ended("ok")]
  /\ UNCHANGED ops

\* await uploadBytes rejects: the old object stays
WriteFailed(t) ==
  /\ tasks[t].pc = "write"
  /\ tasks' = [tasks EXCEPT ![t] = Ended("write-failed")]
  /\ UNCHANGED <<store, log, ops>>

\* updateOrderInMasterFile is called
BeginUpdate(t, u) ==
  /\ FreeSlot(t)
  /\ tasks' = [tasks EXCEPT ![t] =
       [IdleTask EXCEPT !.pc = "read", !.type = "update",
                        !.key = KeyOf(u.orderId,
                                      IF u.subOrderId # <<>> THEN u.subOrderId ELSE u.orderId),
                        !.updates = u.updates]]
  /\ ops' = ops + 1
  /\ UNCHANGED <<store, log>>

StartUpdate(t) ==
  /\ ops < MaxOps
  /\ \E u \in UpdatePool : BeginUpdate(t, u)

\* updateOrderInMasterFile: await readMasterFile, then the two not-found checks
UpdateRead(t) ==
  /\ tasks[t].pc = "read"
  /\ tasks[t].type = "update"
  /\ \E result \in ReadResults(store) :
       LET r == readMasterFile(store, result)
       IN  tasks' = [tasks EXCEPT ![t] =
             IF r.threw THEN Ended("read-failed")
             ELSE IF Len(r.rows) = 0 THEN Ended("master-file-not-found")
             ELSE IF findIndex(r.rows, tasks[t].key) = 0 THEN Ended("order-not-found")
             ELSE [@ EXCEPT !.pc = "write", !.existingRows = r.rows,
                            !.readResult = result, !.readVersion = Len(log)]]
  /\ UNCHANGED <<store, log, ops>>

\* a second bound on the calls, for the runs with one-row sheets
MaxRaceOps == 3

\* processFile is called with a one-row sales or payment sheet
RaceIngest(t) ==
  /\ ops < MaxRaceOps
  /\ \E uploadType \in {"sales", "payment"} : \E file \in Files(uploadType) :
       Len(file) = 1 /\ BeginIngest(t, uploadType, file)

RaceUpdate(t) ==
  /\ ops < MaxRaceOps
  /\ \E u \in UpdatePool : BeginUpdate(t, u)

Next ==
  \E t \in Tasks :
    \/ StartIngest(t)
    \/ ArchiveDone(t)
    \/ ArchiveFailed(t)
    \/ IngestRead(t)
    \/ StartUpdate(t)
    \/ UpdateRead(t)
    \/ WriteDone(t)
    \/ WriteFailed(t)

Spec == Init /\ [][Next]_vars

\* three calls with one-row sheets, so that a point update can overlap an ingestion
RaceNext ==
  \E t \in Tasks :
    \/ RaceIngest(t)
    \/ ArchiveDone(t)
    \/ ArchiveFailed(t)
    \/ IngestRead(t)
    \/ RaceUpdate(t)
    \/ UpdateRead(t)
    \/ WriteDone(t)
    \/ WriteFailed(t)

SpecRace == Init /\ [][RaceNext]_vars

\* ---- a platform whose sales sheets carry a sub order id column

MaxKeyOps == 2

KeyHeaders == [orderId |-> "Order ID", subOrderId |-> "Sub ID", productName |-> "Item"]

\* sales rows whose ids differ in letter case and in surrounding white space
KeyRowPool ==
  { [c \in {"Order ID", "Sub ID", "Item"} |->
       CASE c = "Order ID" -> <<"A", "1">> [] c = "Sub ID" -> <<"S", "1">>
         [] c = "Item" -> <<"W">>],
    [c \in {"Order ID", "Sub ID", "Item"} |->
       CASE c = "Order ID" -> <<"a", "1">> [] c = "Sub ID" -> <<"s", "1">>
         [] c = "Item" -> <<"V">>],
    [c \in {"Order ID", "Sub ID", "Item"} |->
       CASE c = "Order ID" -> <<"A", "1", " ">> [] c = "Sub ID" -> <<"S", "1">>
         [] c = "Item" -> <<"X">>],
    [c \in {"Order ID", "Sub ID", "Item"} |->
       CASE c = "Order ID" -> <<" ", "B", "2">> [] c = "Sub ID" -> <<>>
         [] c = "Item" -> <<"G">>],
    [c \in {"Order ID", "Sub ID", "Item"} |->
       CASE c = "Order ID" -> <<" ">> [] c = "Sub ID" -> <<"S", "1">>
         [] c = "Item" -> <<"Z">>] }

KeyFiles == UNION {[1..n -> KeyRowPool] : n \in 1..MaxRows}

\* patches addressed in another letter case, one of them carrying ids of its own
KeyUpdatePool ==
  { [orderId |-> <<"A", "1">>, subOrderId |-> <<"s", "1">>,
     updates |-> [f \in {"status", "orderId", "subOrderId"} |->
                    CASE f = "status" -> Str(<<"r", "e", "t">>)
                      [] f = "orderId" -> Str(<<"z", "z">>)
                      [] f = "subOrderId" -> Str(<<"y", "y">>)]],
    [orderId |-> <<"B", "2">>, subOrderId |-> <<>>,
     updates |-> [f \in {"status"} |-> Str(<<"r", "e", "t">>)]] }

KeyIngest(t) ==
  /\ ops < MaxKeyOps
  /\ \E file \in KeyFiles : BeginIngestWith(t, "sales", KeyHeaders, file)

KeyUpdate(t) ==
  /\ ops < MaxKeyOps
  /\ \E u \in KeyUpdatePool : BeginUpdate(t, u)

KeyNext ==
  \E t \in Tasks :
    \/ KeyIngest(t)
    \/ ArchiveDone(t)
    \/ ArchiveFailed(t)
    \/ IngestRead(t)
    \/ KeyUpdate(t)
    \/ UpdateRead(t)
    \/ WriteDone(t)
    \/ WriteFailed(t)

SpecKeys == Init /\ [][KeyNext]_vars

\* ---- storage addresses: the bucket holds an object per path

MaxPathOps == 3

Companies == {<<"c", "1">>}

Platforms == {<<"p", "1">>, <<"p", "2">>}

\* the months `now` can fall in when a sheet carries no usable date
NowMonths == {<<"2", "0", "2", "4", "-", "0", "3">>}

\* `companies/${companyId}/platforms/${platformId}/master.xlsx`
getMasterFilePath(companyId, platformId) ==
  <<"c","o","m","p","a","n","i","e","s","/">> \o companyId
    \o <<"/","p","l","a","t","f","o","r","m","s","/">> \o platformId
    \o <<"/","m","a","s","t","e","r",".","x","l","s","x">>

\* fileName.replace(/[^a-zA-Z0-9.-]/g, '_')
sanitize(fileName) ==
  [i \in 1..Len(fileName) |->
     IF \/ IsDigit(fileName[i]) \/ IsUpper(fileName[i])
        \/ (\E k \in 1..26 : LowerLetters[k] = fileName[i])
        \/ fileName[i] = "." \/ fileName[i] = "-"
     THEN fileName[i] ELSE "_"]

\* `companies/${companyId}/platforms/${platformId}/${month}/${fileType}/${sanitizedFileName}`
getUploadedFilePath(companyId, platformId, month, fileType, fileName) ==
  <<"c","o","m","p","a","n","i","e","s","/">> \o companyId
    \o <<"/","p","l","a","t","f","o","r","m","s","/">> \o platformId
    \o <<"/">> \o month
    \o <<"/">> \o (CASE fileType = "sales"   -> <<"s","a","l","e","s">>
                     [] fileType = "payment" -> <<"p","a","y","m","e","n","t">>
                     [] fileType = "gst"     -> <<"g","s","t">>
                     [] fileType = "refund"  -> <<"r","e","f","u","n","d">>)
    \o <<"/">> \o sanitize(fileName)

\* extractMonth on the date texts the model feeds it: an ISO day away from
\* the month's ends gives YYYY-MM, no text gives the month of `now`
extractMonth(dateString, now) ==
  IF trim(dateString) = <<>> THEN now
  ELSE IF IsIsoDate(dateString) THEN SubSeq(dateString, 1, 7)
  ELSE now

\* processFile step 2: the month of the first of the first five rows that has a date
RECURSIVE monthOf(_, _, _, _)
monthOf(rows, headers, i, now) ==
  IF i > Len(rows) \/ i > 5 THEN now
  ELSE IF trim(getValue(rows[i], Hdr(headers, "orderDate"))) # <<>>
       THEN extractMonth(getValue(rows[i], Hdr(headers, "orderDate")), now)
       ELSE monthOf(rows, headers, i + 1, now)

\* the address a ledger written for the month would have under a
\* month-partitioned layout
ingestMasterPathByMonth(companyId, platformId, month, fileType) ==
  <<"c","o","m","p","a","n","i","e","s","/">> \o companyId
    \o <<"/","p","l","a","t","f","o","r","m","s","/">> \o platformId
    \o <<"/">> \o month
    \o <<"/","m","a","s","t","e","r",".","x","l","s","x">>

\* processFile step 5: mergeIntoMasterFile gets the company, the platform and
\* the file type, and addresses the ledger by company and platform alone
ingestMasterPath(companyId, platformId, month, fileType) ==
  getMasterFilePath(companyId, platformId)

\* loadOrdersFromMasterFiles: the addresses it reads, one per platform
loadPaths == {getMasterFilePath(c, p) : c \in Companies, p \in Platforms}

PathHeaders(uploadType) ==
  IF uploadType = "sales"
  THEN [orderId |-> "Order ID", orderDate |-> "Date", productName |-> "Item"]
  ELSE [orderId |-> "Order ID", orderDate |-> "Date", netAmount |-> "Net Amt"]

\* one-row sheets with their file names: dates in two months, or no date
PathFiles(uploadType) ==
  IF uploadType = "sales"
  THEN { [name |-> <<"s", ".", "x">>,
          rows |-> << [c \in {"Order ID", "Date", "Item"} |->
                         CASE c = "Order ID" -> <<"A", "1">>
                           [] c = "Date" -> <<"2","0","2","4","-","0","1","-","1","5">>
                           [] c = "Item" -> <<"W">>] >>],
         [name |-> <<"s", " ", "2">>,
          rows |-> << [c \in {"Order ID", "Date", "Item"} |->
                         CASE c = "Order ID" -> <<"B", "2">>
                           [] c = "Date" -> <<>>
                           [] c = "Item" -> <<"G">>] >>] }
  ELSE { [name |-> <<"p", ".", "x">>,
          rows |-> << [c \in {"Order ID", "Date", "Net Amt"} |->
                         CASE c = "Order ID" -> <<"A", "1">>
                           [] c = "Date" -> <<"2","0","2","4","-","0","2","-","1","5">>
                           [] c = "Net Amt" -> <<"7">>] >>] }

EmptyBucket == [q \in {} |-> [kind |-> "none", rows |-> <<>>]]

PathInit ==
  /\ store = EmptyBucket
  /\ tasks = [t \in Tasks |-> IdleTask]
  /\ log = <<>>
  /\ ops = 0

\* the rows readMasterFile gives for an address of the bucket
BucketRows(bucket, path) == IF path \in DOMAIN bucket THEN bucket[path].rows ELSE <<>>

\* processFile run to its end with every storage call succeeding
PathIngest ==
  /\ ops < MaxPathOps
  /\ \E c \in Companies, p \in Platforms, uploadType \in {"sales", "payment"}, now \in NowMonths :
       \E file \in PathFiles(uploadType) :
         LET headers  == PathHeaders(uploadType)
             rows     == parseFile(file.rows)
             month    == monthOf(rows, headers, 1, now)
             newRows  == mapRows(rows, headers, uploadType).mergedRows
             uploadedFilePath == getUploadedFilePath(c, p, month, uploadType, file.name)
             masterPath == ingestMasterPath(c, p, month, uploadType)
             archived == SetProp(store, uploadedFilePath, [kind |-> "archive", rows |-> rows])
             merged   == mergedRowsOf(BucketRows(archived, masterPath), newRows, uploadType)
         IN  /\ store' = SetProp(archived, masterPath,
                                 [kind |-> "ledger", rows |-> SheetRows(merged)])
             /\ log' = Append(log, [type |-> "ingest", company |-> c, platform |-> p,
                                    month |-> month, uploadType |-> uploadType,
                                    name |-> file.name, keys |-> Keys(newRows)])
  /\ ops' = ops + 1
  /\ UNCHANGED tasks

\* updateOrderInMasterFile run to its end: it throws when it finds no rows
\* or no record, and writes the patched rows otherwise
PathUpdate ==
  /\ ops < MaxPathOps
  /\ \E c \in Companies, p \in Platforms, u \in UpdatePool :
       LET masterPath   == getMasterFilePath(c, p)
           existingRows == BucketRows(store, masterPath)
           key == KeyOf(u.orderId, IF u.subOrderId # <<>> THEN u.subOrderId ELSE u.orderId)
           orderIndex == findIndex(existingRows, key)
       IN  IF Len(existingRows) = 0 \/ orderIndex = 0
           THEN UNCHANGED <<store, log>>
           ELSE /\ store' = SetProp(store, masterPath,
                       [kind |-> "ledger",
                        rows |-> SheetRows(updatedRowsOf(existingRows, orderIndex, u.updates))])
                /\ log' = Append(log, [type |-> "update", company |-> c, platform |-> p,
                                       month |-> <<>>, uploadType |-> "none",
                                       name |-> <<>>, keys |-> {key}])
  /\ ops' = ops + 1
  /\ UNCHANGED tasks

PathNext == PathIngest \/ PathUpdate

SpecPaths == PathInit /\ [][PathNext]_vars


\* ------------------------------------------------------- claim vocabulary

\* the known fields each record kind owns
Owned(uploadType) ==
  CASE uploadType = "sales" ->
         {"productName", "sku", "skuName", "quantity", "status", "orderDate",
          "customerName", "customerState", "customerCity", "customerPincode",
          "wholesalePrice", "sellingPrice", "shippingCharge"}
    [] uploadType = "payment" ->
         {"paymentMode", "hsn", "commission", "tcs", "tds", "shipperCharge", "netAmount"}
    [] uploadType = "gst" ->
         {"invoiceNumber", "invoiceDate", "hsn", "gstRate", "taxableValue",
          "cgst", "sgst", "igst", "invoiceAmount"}
    [] uploadType = "refund" ->
         {"refundAmount", "deductionAmount", "refundReason", "refundDate", "gstRefund"}

KnownFields == UNION {Owned(u) : u \in UploadTypes}

\* a field's value, an undefined property reading as the empty cell it is stored as
Val(row, f) == IF f \in DOMAIN row THEN row[f] ELSE EmptyStr

\* present: a number, or a string that is not empty after trimming
Present(v) == v.t = "n" \/ trim(v.s) # <<>>

\* lowercase(trim(orderId)) + "_" + lowercase(trim(subOrderId))
IdentityKey(orderId, subOrderId) ==
  toLowerCase(trim(orderId)) \o <<"_">> \o toLowerCase(trim(subOrderId))

StoredKey(row) == IdentityKey(ToText(row["orderId"]), ToText(row["subOrderId"]))

\* the identity key of a sheet row, the sub order id defaulting to the order id
SheetKey(row, headers) ==
  LET orderId == getValue(row, Hdr(headers, "orderId"))
      sub     == getValue(row, Hdr(headers, "subOrderId"))
  IN  IdentityKey(orderId, IF sub # <<>> THEN sub ELSE orderId)

\* the sheet rows of a call that carry an order id and the key
RowsFor(task, key) ==
  {i \in 1..Len(task.rows) :
     /\ trim(getValue(task.rows[i], Hdr(task.headers, "orderId"))) # <<>>
     /\ SheetKey(task.rows[i], task.headers) = key}

HasRecord(rows, key) == \E i \in 1..Len(rows) : StoredKey(rows[i]) = key

RecordAt(rows, key) == rows[CHOOSE i \in 1..Len(rows) : StoredKey(rows[i]) = key]

\* this step is task t's master-file write resolving
Completes(t) ==
  tasks[t].pc = "write" /\ tasks'[t].pc = "idle" /\ tasks'[t].outcome = "ok"

\* t read the ledger as it is now: the read did not fail and nothing was written since
Serial(t) == tasks[t].readResult \in Genuine /\ tasks[t].readVersion = Len(log)

IngestCompletes(t) == Completes(t) /\ tasks[t].type = "ingest" /\ Serial(t)

\* ------------------------------------------------------------------ C1
\* C1 (as claimed): when a record holds a present value for a field its kind
\* owns and every row of an ingested file of that kind for the record's key
\* has an empty source value for the field, the record keeps the value.
C1_NeverOverwriteWithEmptiness ==
  [][\A t \in Tasks : IngestCompletes(t) =>
       \A i \in 1..Len(store.rows) : \A f \in Owned(tasks[t].uploadType) :
         LET old == store.rows[i]
             key == StoredKey(old)
         IN  ( /\ Present(Val(old, f))
               /\ RowsFor(tasks[t], key) # {}
               /\ \A r \in RowsFor(tasks[t], key) :
                    getValue(tasks[t].rows[r], Hdr(tasks[t].headers, f)) = <<>> )
             => /\ HasRecord(store'.rows, key)
                /\ Val(RecordAt(store'.rows, key), f) = Val(old, f)]_vars

\* ------------------------------------------------------------------ C2
\* C2 (as claimed): ingesting a row of one kind for a key that has a record
\* leaves every known field owned only by other kinds, status and gstRefund
\* aside, as it was.
C2_KindOwnership ==
  [][\A t \in Tasks : IngestCompletes(t) =>
       \A i \in 1..Len(store.rows) :
         LET old == store.rows[i]
             key == StoredKey(old)
         IN  RowsFor(tasks[t], key) # {} =>
               /\ HasRecord(store'.rows, key)
               /\ \A f \in KnownFields \ (Owned(tasks[t].uploadType) \cup {"status", "gstRefund"}) :
                    Val(RecordAt(store'.rows, key), f) = Val(old, f)]_vars

\* ------------------------------------------------------------------ C3
\* C3: the persisted ledger never holds two records with the same
\* case-folded orderId_subOrderId.
C3_IdentityKeyUnique ==
  \A i, j \in 1..Len(store.rows) :
    i # j => toLowerCase(SortKey(store.rows[i])) # toLowerCase(SortKey(store.rows[j]))

\* an id met again in another letter case and a point update have both been written
C3_Witness ==
  /\ Len(store.rows) >= 1
  /\ \E i, j \in 1..Len(log) :
       /\ i < j /\ log[i].type = "ingest" /\ log[j].type = "ingest"
       /\ \E a \in 1..Len(log[i].rows), b \in 1..Len(log[j].rows) :
            /\ getValue(log[i].rows[a], "Order ID") = <<"A", "1">>
            /\ getValue(log[j].rows[b], "Order ID") = <<"a", "1">>
       /\ log[j].readResult = "ok"


\* ------------------------------------------------------------------ C4
\* the keys of the sheet rows of a call that carry an order id
FileKeys(task) ==
  {SheetKey(task.rows[i], task.headers) :
     i \in {j \in 1..Len(task.rows) :
              trim(getValue(task.rows[j], Hdr(task.headers, "orderId"))) # <<>>}}

MinOf(S) == CHOOSE i \in S : \A j \in S : i <= j

MaxOf(S) == CHOOSE i \in S : \A j \in S : j <= i

RECURSIVE FirstRowsFrom(_, _)
FirstRowsFrom(task, i) ==
  IF i > Len(task.rows) THEN <<>>
  ELSE IF /\ trim(getValue(task.rows[i], Hdr(task.headers, "orderId"))) # <<>>
          /\ i = MinOf(RowsFor(task, SheetKey(task.rows[i], task.headers)))
       THEN <<MapRow(task.rows[i], task.headers, task.uploadType)>> \o FirstRowsFrom(task, i + 1)
       ELSE FirstRowsFrom(task, i + 1)

IngestInto(rows, e) ==
  SheetRows(mergedRowsOf(rows, mapRows(e.rows, e.headers, e.uploadType).mergedRows,
                         e.uploadType))

\* the log is exactly two ingestions run one after the other from an absent ledger
TwoInARow ==
  /\ Len(log) = 2
  /\ log[1].type = "ingest" /\ log[2].type = "ingest"
  /\ log[1].readResult = "storage/object-not-found" /\ log[1].readVersion = 0
  /\ log[2].readResult = "ok" /\ log[2].readVersion = 1

\* C5 (as claimed): a sales file then a payment file leave, for a key both
\* carry, the record that the payment file then the sales file leave, on
\* every known field but status and gstRefund.
C5_OrderIndependence ==
  (TwoInARow /\ log[1].uploadType = "sales" /\ log[2].uploadType = "payment") =>
    LET swapped == IngestInto(IngestInto(<<>>, log[2]), log[1])
    IN  \A key \in FileKeys(log[1]) \cap FileKeys(log[2]) :
          /\ HasRecord(store.rows, key) /\ HasRecord(swapped, key)
          /\ \A f \in KnownFields \ {"status", "gstRefund"} :
               Val(RecordAt(store.rows, key), f) = Val(RecordAt(swapped, key), f)

\* ------------------------------------------------------------------ C6
\* C6: ingesting a file a second time, right after it was ingested into an
\* absent ledger, leaves the persisted ledger as it was.
C6_ReingestIdempotent ==
  [][\A t \in Tasks :
       ( /\ IngestCompletes(t)
         /\ Len(log) = 1 /\ log[1].type = "ingest"
         /\ log[1].readResult = "storage/object-not-found"
         /\ log[1].rows = tasks[t].rows
         /\ log[1].uploadType = tasks[t].uploadType
         /\ log[1].headers = tasks[t].headers )
       => store' = store]_vars

\* the same two-row file, numbers and texts present, was ingested twice in a row
C6_Witness ==
  /\ TwoInARow
  /\ log[1].rows = log[2].rows /\ log[1].uploadType = log[2].uploadType
  /\ Len(log[1].rows) = 2
  /\ Len(store.rows) = 2
  /\ \E i \in 1..2 : Val(store.rows[i], "netAmount") = Num(95000)


\* ------------------------------------------------------------------ C7
\* C7 (as claimed): an ingestion whose read of the ledger failed for a
\* reason other than not-found ends in an error and leaves the ledger as it was.
C7_ReadFailureStopsIngestion ==
  [][\A t \in Tasks :
       ( /\ tasks[t].type = "ingest" /\ tasks[t].pc = "write"
         /\ tasks[t].readResult \in ReadErrors
         /\ tasks'[t].pc # "write" )
       => store' = store /\ tasks'[t].outcome # "ok"]_vars

\* ------------------------------------------------------------------ C8
StoredKeys(st) == {StoredKey(st.rows[i]) : i \in 1..Len(st.rows)}

\* C8: the persisted ledger changes only in the step in which a call's one
\* write resolves, and after the write of an ingestion every key of the
\* batch is in it; a call that fails or never reaches its write changes nothing.
C8_AllOrNothing ==
  [][ /\ store' # store => \E t \in Tasks : Completes(t)
      /\ \A t \in Tasks :
           (tasks[t].pc # "idle" /\ tasks'[t].pc = "idle" /\ tasks'[t].outcome # "ok")
             => store' = store
      /\ \A t \in Tasks :
           (Completes(t) /\ tasks[t].type = "ingest")
             => FileKeys(tasks[t]) \subseteq StoredKeys(store') ]_vars

\* after a two-key batch became visible as a whole, a later call's write was
\* rejected and the ledger still holds that batch
C8_Witness ==
  /\ Len(log) = 1
  /\ Cardinality(log[1].ownKeys) = 2
  /\ StoredKeys(store) = log[1].ownKeys
  /\ \E t \in Tasks : tasks[t].outcome = "write-failed"

\* ------------------------------------------------------------------ C9
\* write i happened between the read and the write of the last write
Overlapped(i) == i < Len(log) /\ log[Len(log)].readVersion < i

\* the keys write i contributed that the last writer neither read nor carried
LostKeys(i) ==
  log[i].ownKeys \ (log[Len(log)].loadedKeys \cup log[Len(log)].ownKeys)

\* C9: when two calls overlap, both reading before either writes, the later
\* write succeeds all the same and the ledger it leaves lacks every key the
\* earlier write added that the later call neither read nor carried.
C9_LostUpdate ==
  \A i \in 1..Len(log) :
    Overlapped(i) => \A k \in LostKeys(i) : k \notin Keys(store.rows)

\* an ingestion added a key while a point update was in flight, and the
\* update's write removed it again
C9_Witness ==
  /\ Len(log) = 3
  /\ Overlapped(2)
  /\ log[2].type = "ingest" /\ log[3].type = "update"
  /\ LostKeys(2) # {}
  /\ \A t \in Tasks : tasks[t].outcome = "ok"

\* ------------------------------------------------------------------ C10
\* C10: a write that follows its own read with no failure and no other write
\* in between keeps every identity key of the ledger, and a populated
\* address never becomes absent.
C10_NeverDeleted ==
  [][ /\ store.exists => store'.exists
      /\ (\A t \in Tasks : Completes(t) => Serial(t))
           => StoredKeys(store) \subseteq StoredKeys(store') ]_vars

\* two ingestions of different keys ran one after the other and both keys are there
C10_Witness ==
  /\ TwoInARow
  /\ log[1].ownKeys \cap log[2].ownKeys = {}
  /\ StoredKeys(store) = log[1].ownKeys \cup log[2].ownKeys
  /\ Cardinality(StoredKeys(store)) = 2

\* ------------------------------------------------------------------ C11
\* the mapped row of the first sheet row of a call that carries the key
FirstMapped(task, key) ==
  MapRow(task.rows[MinOf(RowsFor(task, key))], task.headers, task.uploadType)

\* C11 (as claimed): an ingested row sets the status and the gstRefund of the
\* record it meets when it carries a present value for them, and leaves them
\* as they were when its value is absent or an empty string.
C11_StatusRule ==
  [][\A t \in Tasks : IngestCompletes(t) =>
       \A i \in 1..Len(store.rows) : \A f \in {"status", "gstRefund"} :
         LET old == store.rows[i]
             key == StoredKey(old)
         IN  RowsFor(tasks[t], key) # {} =>
               /\ HasRecord(store'.rows, key)
               /\ Val(RecordAt(store'.rows, key), f)
                    = IF Present(Val(FirstMapped(tasks[t], key), f))
                      THEN FirstMapped(tasks[t], key)[f]
                      ELSE Val(old, f)]_vars

\* ------------------------------------------------------------------ C12
\* C12: a write that follows its own read keeps, for every record of the
\* ledger, a record with the same key whose orderId and subOrderId are the
\* stored ones, whatever ids and casing the incoming rows or the patch carry.
C12_IdentityImmutable ==
  [][\A t \in Tasks : (Completes(t) /\ Serial(t)) =>
       \A i \in 1..Len(store.rows) :
         \E j \in 1..Len(store'.rows) :
           /\ rowKey(store'.rows[j]) = rowKey(store.rows[i])
           /\ store'.rows[j]["orderId"] = store.rows[i]["orderId"]
           /\ store'.rows[j]["subOrderId"] = store.rows[i]["subOrderId"]]_vars

\* a record first seen as A1/S1 took a patch that carries other ids and still
\* reads A1/S1
C12_Witness ==
  /\ Len(log) = 2
  /\ log[2].readResult = "ok" /\ log[2].readVersion = 1
  /\ \E i \in 1..Len(store.rows) :
       /\ store.rows[i]["orderId"] = Str(<<"A", "1">>)
       /\ store.rows[i]["subOrderId"] = Str(<<"S", "1">>)
       /\ log[2].type = "update"
       /\ Val(store.rows[i], "status") = Str(<<"r", "e", "t">>)

\* ------------------------------------------------------------------ C13
\* orderId_subOrderId of a stored record, letter case folded
FoldedKey(row) == toLowerCase(SortKey(row))

\* the same of the sheet rows of a call that carry an order id
FoldedFileKeys(task) ==
  {LET orderId == getValue(task.rows[i], Hdr(task.headers, "orderId"))
       sub     == getValue(task.rows[i], Hdr(task.headers, "subOrderId"))
   IN  toLowerCase(orderId \o <<"_">> \o (IF sub # <<>> THEN sub ELSE orderId)) :
     i \in {j \in 1..Len(task.rows) :
              trim(getValue(task.rows[j], Hdr(task.headers, "orderId"))) # <<>>}}

FoldedKeys(rows) == {FoldedKey(rows[i]) : i \in 1..Len(rows)}

\* C13: rows whose ids differ only in letter case, in one file, in two files
\* or one of them stored, end in one record; a point update addressed in
\* another letter case finds the record.
C13_CaseInsensitiveIdentity ==
  [][\A t \in Tasks :
       /\ IngestCompletes(t) =>
            /\ FoldedKeys(store'.rows) = FoldedKeys(store.rows) \cup FoldedFileKeys(tasks[t])
            /\ Cardinality(FoldedKeys(store'.rows)) = Len(store'.rows)
       /\ ( /\ tasks[t].type = "update" /\ tasks[t].pc = "read"
            /\ tasks'[t].outcome = "order-not-found" )
            => toLowerCase(tasks[t].key) \notin FoldedKeys(store.rows)
       /\ ( /\ tasks[t].type = "update" /\ tasks[t].pc = "read"
            /\ tasks'[t].pc = "write" )
            => toLowerCase(tasks[t].key) \in FoldedKeys(store.rows)]_vars

\* A1/S1 was stored, a later file brought a1/s1, and the ledger holds the one
\* record with the later item
C13_Witness ==
  /\ TwoInARow
  /\ Len(store.rows) = 1
  /\ store.rows[1]["orderId"] = Str(<<"A", "1">>)
  /\ Val(store.rows[1], "productName") = Str(<<"V">>)

LogicalFields == KnownFields \cup {"orderId", "subOrderId"}

\* C15: when an ingested row meets a record, a column of the row that is no
\* logical field is added with the row's value if the record has no entry
\* under it, and every such column the record already has keeps its value.
C15_OverflowFirstWriterWins ==
  [][\A t \in Tasks : IngestCompletes(t) =>
       \A i \in 1..Len(store.rows) :
         LET old == store.rows[i]
             key == StoredKey(old)
         IN  RowsFor(tasks[t], key) # {} =>
               /\ HasRecord(store'.rows, key)
               /\ \A c \in DOMAIN old \ LogicalFields :
                    RecordAt(store'.rows, key)[c] = old[c]
               /\ \A c \in DOMAIN FirstMapped(tasks[t], key) \ (DOMAIN old \cup LogicalFields) :
                    RecordAt(store'.rows, key)[c] = FirstMapped(tasks[t], key)[c]]_vars

\* a record with column Item = W met a later row with Item = V: the logical
\* field took V, the column kept W
C15_Witness ==
  /\ TwoInARow
  /\ \E i \in 1..Len(store.rows) :
       /\ "Item" \in DOMAIN store.rows[i]
       /\ store.rows[i]["Item"] = Str(<<"W">>)
       /\ Val(store.rows[i], "productName") = Str(<<"V">>)

\* ------------------------------------------------------------------ C16
\* the errors updateOrderInMasterFile throws for a record it cannot find
NotFoundErrors == {"order-not-found", "master-file-not-found"}

\* C16: a point update whose key no record of the ledger has ends at its read
\* with a not-found error (or with the read's own error when the read throws),
\* never reaches its write and leaves the persisted ledger as it was.
C16_UpdateMissingKey ==
  [][\A t \in Tasks :
       ( /\ tasks[t].type = "update" /\ tasks[t].pc = "read"
         /\ tasks'[t] # tasks[t]
         /\ tasks[t].key \notin Keys(store.rows) )
       => /\ tasks'[t].pc = "idle"
          /\ tasks'[t].outcome \in NotFoundErrors \cup {"read-failed"}
          /\ store' = store /\ log' = log]_vars

\* the ledger holds a record, a point update for another key ended with
\* "Order not found", and the ledger is still what the one write left
C16_Witness ==
  /\ store.exists /\ Len(log) = 1 /\ Len(store.rows) >= 1
  /\ \E t \in Tasks : tasks[t].outcome = "order-not-found"
  /\ <<"b", "2", "_", "b", "2">> \notin Keys(store.rows)

\* ------------------------------------------------------------------ C17
\* the row of a ledger that has the lookup key
RowWithKey(rows, key) == rows[CHOOSE j \in 1..Len(rows) : rowKey(rows[j]) = key]

\* C17: a point update written right after its own read gives the target
\* record the patch values on the patched fields, whatever they held, keeps
\* every other field of it and every other record, and keeps the record count.
C17_PointUpdateFrame ==
  [][\A t \in Tasks : (Completes(t) /\ tasks[t].type = "update" /\ Serial(t)) =>
       /\ Len(store'.rows) = Len(store.rows)
       /\ Keys(store'.rows) = Keys(store.rows)
       /\ \A i \in 1..Len(store.rows) :
            LET old == store.rows[i]
                new == RowWithKey(store'.rows, rowKey(old))
                patched == IF rowKey(old) = tasks[t].key
                           THEN DOMAIN tasks[t].updates \ {"orderId", "subOrderId"}
                           ELSE {}
            IN  /\ \A f \in patched : new[f] = tasks[t].updates[f]
                /\ \A c \in DOMAIN old \ patched : new[c] = old[c]
                /\ \A c \in DOMAIN new \ (DOMAIN old \cup patched) : new[c] = EmptyStr]_vars

\* a ledger of two records took the return patch for a1: its status and
\* gstRefund are the patch's, and the other record is there
C17_Witness ==
  /\ Len(log) = 2 /\ log[2].type = "update"
  /\ log[2].readResult = "ok" /\ log[2].readVersion = 1
  /\ Len(store.rows) = 2
  /\ \E i \in 1..2 :
       /\ rowKey(store.rows[i]) = <<"a", "1", "_", "a", "1">>
       /\ Val(store.rows[i], "status") = Str(<<"r", "e", "t">>)
       /\ Val(store.rows[i], "gstRefund") = Num(900)
       /\ Val(store.rows[3 - i], "gstRefund") = EmptyStr

\* ------------------------------------------------------------------ C18
\* C18 (as claimed): the persisted records are in ascending order of the
\* case-folded, trimmed key they are looked up by.
C18_SortedByIdentityKey ==
  \A i, j \in 1..Len(store.rows) :
    i < j => localeCompare(rowKey(store.rows[i]), rowKey(store.rows[j])) < 0

\* ------------------------------------------------------------------ C19
\* the sheet rows of a call whose order id is not empty after trimming
UsableRows(task) ==
  SelectSeq(task.rows, LAMBDA row : trim(getValue(row, Hdr(task.headers, "orderId"))) # <<>>)

\* C19: the rows without a usable order id are counted as errors and leave
\* no trace: the call hands on, and the ledger takes, exactly what the file
\* without those rows gives, the other rows in file order.
C19_RowRejectionLocal ==
  [][\A t \in Tasks : IngestCompletes(t) =>
       LET all    == mapRows(tasks[t].rows, tasks[t].headers, tasks[t].uploadType)
           usable == mapRows(UsableRows(tasks[t]), tasks[t].headers, tasks[t].uploadType)
       IN  /\ all.errorCount = Len(tasks[t].rows) - Len(UsableRows(tasks[t]))
           /\ all.successCount + all.duplicateCount = Len(UsableRows(tasks[t]))
           /\ tasks[t].newRows = usable.mergedRows
           /\ store'.rows = SheetRows(mergedRowsOf(store.rows, usable.mergedRows,
                                                   tasks[t].uploadType))]_vars

\* a file whose first row has a blank order id and whose second row is A1/S1
\* was ingested: the ledger holds the one record of A1
C19_Witness ==
  /\ Len(log) = 1 /\ log[1].type = "ingest"
  /\ Len(log[1].rows) = 2
  /\ getValue(log[1].rows[1], "Order ID") = <<" ">>
  /\ getValue(log[1].rows[2], "Order ID") = <<"A", "1">>
  /\ Len(store.rows) = 1
  /\ store.rows[1]["orderId"] = Str(<<"A", "1">>)
  /\ Val(store.rows[1], "productName") = Str(<<"W">>)

\* ------------------------------------------------------------------ C20
\* the ledgers of the bucket
LedgerPaths == {q \in DOMAIN store : store[q].kind = "ledger"}

HeaderNames == {"Order ID", "order_id", "Order Id", "OrderId", "Order-ID", "Sub ID", "Item"}

CellTexts == {<<"7">>, <<"x", " ">>}

\* the calls getValue(row, h) with row = { [k]: v }
LookupInputs ==
  [k : HeaderNames, h : HeaderNames \cup {""}, v : CellTexts]

LookupInit ==
  /\ store \in LookupInputs
  /\ tasks = [t \in Tasks |-> IdleTask]
  /\ log = <<>>
  /\ ops = 0

\* getValue is called and returns
Lookup ==
  /\ ops = 0
  /\ log' = <<getValue([c \in {store.k} |-> store.v], store.h)>>
  /\ ops' = 1
  /\ UNCHANGED <<store, tasks>>

SpecLookup == LookupInit /\ [][Lookup]_vars

\* a name lower-cased and without white space, underscores and hyphens
Squeezed(name) ==
  SelectSeq(toLowerCase(Spell(name)), LAMBDA c : ~(c = " " \/ c = "_" \/ c = "-"))

\* C21: on a row with the one column k holding the text v, getValue(row, h)
\* returns v when h is not empty and equals k after lower-casing and removing
\* white space, underscores and hyphens, and the empty string otherwise.
C21_HeaderResolution ==
  ops = 1 =>
    log[1] = IF store.h # "" /\ Squeezed(store.k) = Squeezed(store.h)
             THEN store.v ELSE <<>>

\* the column order_id was found for the header Order-ID
C21_Witness ==
  /\ ops = 1
  /\ store.k = "order_id" /\ store.h = "Order-ID"
  /\ log[1] = store.v /\ store.v # <<>>

\* ------------------------------------------------------------------ C22
\* ---- processFile with its upload-history record and its result summary;
\* ---- log is the history of what the calls did

MaxUploadOps == 2

\* the catch of processFile taken for a rejected write all the same
processFileStepSwallowing(pc, resolved) ==
  CASE pc = "archive" /\ resolved -> "read"
    [] pc = "read" -> "write"
    [] pc = "write" -> "metadata"
    [] pc = "metadata" /\ resolved -> "summary"
    [] pc = "summary" -> "done"
    [] OTHER -> "failed"

\* where processFile stands after the await at pc resolved or rejected: steps
\* 4, 5 and 6 follow one another, and a rejection leaves through the catch
processFileStep(pc, resolved) ==
  CASE pc = "archive" /\ resolved -> "read"
    [] pc = "read" -> "write"
    [] pc = "write" /\ resolved -> "metadata"
    [] pc = "metadata" /\ resolved -> "summary"
    [] pc = "summary" -> "done"
    [] OTHER -> "failed"

\* errorCount === 0 ? 'success' : 'failed'
uploadStatusNoPartial(errorCount, successCount) ==
  IF errorCount = 0 THEN "success" ELSE "failed"

\* status: errorCount === 0 ? 'success' : successCount > 0 ? 'partial' : 'failed'
uploadStatus(errorCount, successCount) ==
  IF errorCount = 0 THEN "success"
  ELSE IF successCount > 0 THEN "partial"
  ELSE "failed"

\* the task after a step of processFile
Stepped(task, pc, resolved) ==
  LET next == processFileStep(pc, resolved)
  IN  IF next = "failed"
      THEN Ended(CASE pc = "archive" -> "upload-failed"
                   [] pc = "write" -> "write-failed"
                   [] OTHER -> "metadata-failed")
      ELSE IF next = "done" THEN Ended("ok")
      ELSE [task EXCEPT !.pc = next]

Event(kind, t) ==
  [type |-> kind, task |-> t, rows |-> tasks[t].rows, headers |-> tasks[t].headers]

\* sheets of the row A1/S1 and of the row without order id
UploadFiles ==
  {file \in KeyFiles : \A i \in 1..Len(file) : file[i]["Item"] \in {<<"W">>, <<"Z">>}}

UploadStart(t) ==
  /\ ops < MaxUploadOps
  /\ \E file \in UploadFiles : BeginIngestWith(t, "sales", KeyHeaders, file)

\* await uploadFileToStorage resolves or rejects
UploadArchive(t) ==
  /\ tasks[t].pc = "archive"
  /\ \E resolved \in BOOLEAN :
       tasks' = [tasks EXCEPT ![t] = Stepped(@, "archive", resolved)]
  /\ UNCHANGED <<store, log, ops>>

\* mergeIntoMasterFile: the read inside try/catch
UploadRead(t) ==
  /\ tasks[t].pc = "read"
  /\ \E result \in ReadResults(store) :
       tasks' = [tasks EXCEPT ![t] =
                   [Stepped(@, "read", TRUE) EXCEPT
                      !.existingRows = ingestExistingRows(store, result),
                      !.readResult = result]]
  /\ log' = Append(log, Event("read", t))
  /\ UNCHANGED <<store, ops>>

\* mergeIntoMasterFile: the merge in memory and await uploadBytes
UploadWrite(t) ==
  /\ tasks[t].pc = "write"
  /\ \E resolved \in BOOLEAN :
       /\ tasks' = [tasks EXCEPT ![t] = Stepped(@, "write", resolved)]
       /\ IF resolved
          THEN /\ store' = uploadBytes(RowsToWrite(tasks[t]))
               /\ log' = Append(log, Event("write", t) @@
                                     [handed |-> Len(tasks[t].newRows)])
          ELSE UNCHANGED <<store, log>>
  /\ UNCHANGED ops

\* the counts of the upload-history document addUploadedFile gets
uploadedFileOf(counts) ==
  [recordsCount |-> counts.successCount, errors |-> counts.errorCount,
   status |-> uploadStatus(counts.errorCount, counts.successCount)]

\* setResult's argument
resultOf(counts) ==
  [success |-> counts.successCount, errors |-> counts.errorCount,
   duplicates |-> counts.duplicateCount]

\* await addUploadedFile: the upload-history document is added, or the call rejects
UploadMetadata(t) ==
  /\ tasks[t].pc = "metadata"
  /\ \E resolved \in BOOLEAN :
       /\ tasks' = [tasks EXCEPT ![t] = Stepped(@, "metadata", resolved)]
       /\ log' = IF resolved
                 THEN Append(log, Event("metadata", t) @@
                        uploadedFileOf(mapRows(tasks[t].rows, tasks[t].headers,
                                               tasks[t].uploadType)))
                 ELSE log
  /\ UNCHANGED <<store, ops>>

\* setResult({ success, errors, duplicates })
UploadSummary(t) ==
  /\ tasks[t].pc = "summary"
  /\ tasks' = [tasks EXCEPT ![t] = Stepped(@, "summary", TRUE)]
  /\ log' = Append(log, Event("summary", t) @@
                   resultOf(mapRows(tasks[t].rows, tasks[t].headers, tasks[t].uploadType)))
  /\ UNCHANGED <<store, ops>>

UploadNext ==
  \E t \in Tasks :
    \/ UploadStart(t)
    \/ UploadArchive(t)
    \/ UploadRead(t)
    \/ UploadWrite(t)
    \/ UploadMetadata(t)
    \/ UploadSummary(t)

SpecUpload == Init /\ [][UploadNext]_vars

\* how many of the first n entries of the history are of the kind and the task
CountUpTo(kind, t, n) ==
  Cardinality({i \in 1..n : log[i].type = kind /\ log[i].task = t})

\* C22: at every point of the history each task has read at least as often
\* as it has written, written at least as often as it has recorded an upload,
\* and recorded at least as often as it has shown a summary: a write comes
\* after its load, a record and a summary only after a write that succeeded.
C22_StepsInOrder ==
  \A t \in Tasks : \A n \in 0..Len(log) :
       /\ CountUpTo("read", t, n) >= CountUpTo("write", t, n)
       /\ CountUpTo("write", t, n) >= CountUpTo("metadata", t, n)
       /\ CountUpTo("metadata", t, n) >= CountUpTo("summary", t, n)

\* one call ran to its summary and the write of the other was rejected: the
\* history holds the record and the summary of the first alone
C22_Witness ==
  /\ \E t \in Tasks : tasks[t].outcome = "write-failed"
  /\ \E t \in Tasks : tasks[t].outcome = "ok"
  /\ Cardinality({i \in 1..Len(log) : log[i].type = "read"}) = 2
  /\ Cardinality({i \in 1..Len(log) : log[i].type = "write"}) = 1
  /\ Cardinality({i \in 1..Len(log) : log[i].type = "metadata"}) = 1
  /\ Cardinality({i \in 1..Len(log) : log[i].type = "summary"}) = 1

\* ------------------------------------------------------------------ C29
\* C29: the counts a call records add up to the parsed rows; the rows it
\* hands to the merge and the records it reports are one per key among the
\* rows with an order id, the errors are the rows without; the recorded
\* status is success without errors, partial with errors and records, and
\* failed with errors and no record.
C29_RowAccounting ==
  \A i \in 1..Len(log) :
    LET e       == log[i]
        errors  == Len(e.rows) - Len(UsableRows(e))
        records == Cardinality(FileKeys(e))
    IN  /\ e.type = "write" => e.handed = records
        /\ e.type = "metadata" =>
             /\ e.recordsCount = records /\ e.errors = errors
             /\ (e.status = "success") = (errors = 0)
             /\ (e.status = "partial") = (errors > 0 /\ records > 0)
             /\ (e.status = "failed") = (errors > 0 /\ records = 0)
        /\ e.type = "summary" =>
             /\ e.success = records /\ e.errors = errors
             /\ e.success + e.errors + e.duplicates = Len(e.rows)

\* one sheet with a row without order id and the row A1/S1 was recorded as a
\* partial upload, and another with the row A1/S1 twice reported a duplicate
C29_Witness ==
  \E i, j \in 1..Len(log) :
    /\ log[i].type = "metadata" /\ log[i].status = "partial"
    /\ log[i].recordsCount = 1 /\ log[i].errors = 1
    /\ log[j].type = "summary" /\ log[j].duplicates = 1 /\ log[j].success = 1

\* ------------------------------------------------------------------ C23
\* C23 (as claimed): a numeric cell of an ingested row whose text is not
\* empty and parses to 0, a quantity cell included, leaves 0 in the field of
\* the record with the row's key.
C23_ZeroIsAValue ==
  [][\A t \in Tasks : IngestCompletes(t) =>
       \A r \in 1..Len(tasks[t].rows) :
         \A f \in {"quantity", "wholesalePrice"} \cap DOMAIN tasks[t].headers :
           LET row  == tasks[t].rows[r]
               key  == SheetKey(row, tasks[t].headers)
               cell == getValue(row, Hdr(tasks[t].headers, f))
           IN  ( /\ r = MinOf(RowsFor(tasks[t], key) \cup {r})
                 /\ r \in RowsFor(tasks[t], key)
                 /\ cell # <<>> /\ parseNumber(cell) = 0 )
               => /\ HasRecord(store'.rows, key)
                  /\ Val(RecordAt(store'.rows, key), f) = Num(0)]_vars

\* ---- a platform whose sales sheets carry ids with '_' and padded status cells

MaxCellOps == 2

CellHeaders == [orderId |-> "Order ID", subOrderId |-> "Sub ID", status |-> "Status"]

CellRowPool ==
  { [c \in {"Order ID", "Sub ID", "Status"} |->
       CASE c = "Order ID" -> <<"a", "_", "b">> [] c = "Sub ID" -> <<"c">>
         [] c = "Status" -> <<" ", "O", "k", " ">>],
    [c \in {"Order ID", "Sub ID", "Status"} |->
       CASE c = "Order ID" -> <<"a">> [] c = "Sub ID" -> <<"b", "_", "c">>
         [] c = "Status" -> <<"o", "k">>],
    [c \in {"Order ID", "Sub ID", "Status"} |->
       CASE c = "Order ID" -> <<"A">> [] c = "Sub ID" -> <<"C">>
         [] c = "Status" -> <<"O", "k">>] }

CellFiles == UNION {[1..n -> CellRowPool] : n \in 1..MaxRows}

CellIngest(t) ==
  /\ ops < MaxCellOps
  /\ \E file \in CellFiles : BeginIngestWith(t, "sales", CellHeaders, file)

CellNext ==
  \E t \in Tasks :
    \/ CellIngest(t)
    \/ ArchiveDone(t)
    \/ ArchiveFailed(t)
    \/ IngestRead(t)
    \/ WriteDone(t)
    \/ WriteFailed(t)

SpecCells == Init /\ [][CellNext]_vars

\* ------------------------------------------------------------------ C24
\* C24 (as claimed): the status an ingested row leaves in the record with its
\* key is the text of its status cell, lower-cased and without the white
\* space around it.
C24_StatusNormalized ==
  [][\A t \in Tasks : (IngestCompletes(t) /\ "status" \in DOMAIN tasks[t].headers) =>
       \A key \in FileKeys(tasks[t]) :
         LET row  == tasks[t].rows[MinOf(RowsFor(tasks[t], key))]
             cell == getValue(row, Hdr(tasks[t].headers, "status"))
         IN  /\ HasRecord(store'.rows, key)
             /\ Val(RecordAt(store'.rows, key), "status") = Str(toLowerCase(trim(cell)))]_vars

\* ------------------------------------------------------------------ C26
\* the pair of ids a row is about: each id trimmed and case-folded
IdPair(orderId, subOrderId) ==
  <<toLowerCase(trim(orderId)), toLowerCase(trim(subOrderId))>>

StoredPairs(rows) ==
  {IdPair(ToText(rows[i]["orderId"]), ToText(rows[i]["subOrderId"])) : i \in 1..Len(rows)}

SheetPair(row, headers) ==
  LET orderId == getValue(row, Hdr(headers, "orderId"))
      sub     == getValue(row, Hdr(headers, "subOrderId"))
  IN  IdPair(orderId, IF sub # <<>> THEN sub ELSE orderId)

\* C26 (as claimed): rows whose id pairs differ are never merged into one
\* record, ids holding a '_' included: after an ingestion the ledger holds a
\* record for the id pair of every record it held and of every row of the
\* file that carries an order id.
C26_KeyInjective ==
  [][\A t \in Tasks : IngestCompletes(t) =>
       /\ StoredPairs(store.rows) \subseteq StoredPairs(store'.rows)
       /\ \A r \in 1..Len(tasks[t].rows) :
            ~RowRejected(tasks[t].rows[r], tasks[t].headers) =>
              SheetPair(tasks[t].rows[r], tasks[t].headers) \in StoredPairs(store'.rows)]_vars

\* ---- the data provider: the ledger, the returns collection, the React state
\* store is [exists, rows, returns]: master.xlsx and the returns collection;
\* log is [orders, returns]: the provider's state as the last render saw it

MaxReturnOps == 3

ReturnHeaders == [orderId |-> "Order ID", cgst |-> "CGST", invoiceNumber |-> "Inv"]

\* gst rows of two orders, one with tax and one without
ReturnRowPool ==
  { [c \in {"Order ID", "CGST", "Inv"} |->
       CASE c = "Order ID" -> <<"A", "1">> [] c = "CGST" -> <<"9">>
         [] c = "Inv" -> <<"I", "7">>],
    [c \in {"Order ID", "CGST", "Inv"} |->
       CASE c = "Order ID" -> <<"B", "2">> [] c = "CGST" -> <<>>
         [] c = "Inv" -> <<"I", "8">>] }

\* the company and the platform whose ledger the rows are in
ReturnCompany == <<"c", "1">>

ReturnPlatform == <<"p", "1">>

ReturnFiles == UNION {[1..n -> ReturnRowPool] : n \in 1..MaxRows}

\* row[f] || fallback
OrElse(row, f, fallback) == IF TruthyAt(row, f) THEN row[f] ELSE fallback

mergedRowToOrder(row, companyId, platformId) ==
  [id        |-> ToText(Val(row, "orderId")) \o <<"_">>
                   \o ToText(IF TruthyAt(row, "subOrderId") THEN row["subOrderId"]
                             ELSE Val(row, "orderId")),
   orderId   |-> OrElse(row, "orderId", EmptyStr),
   platformId |-> platformId,
   companyId |-> companyId,
   subOrderId |-> IF TruthyAt(row, "subOrderId") THEN row["subOrderId"]
                  ELSE OrElse(row, "orderId", EmptyStr),
   status    |-> OrElse(row, "status", EmptyStr),
   cgst      |-> OrElse(row, "cgst", Num(0)),
   sgst      |-> OrElse(row, "sgst", Num(0)),
   igst      |-> OrElse(row, "igst", Num(0)),
   gstRefund |-> Num(0)]

\* the orders loadOrdersFromMasterFiles makes of one ledger's rows
ordersOfLedger(rows, companyId, platformId) ==
  LET kept == SelectSeq(rows, LAMBDA row :
                TruthyAt(row, "orderId") /\ trim(ToText(row["orderId"])) # <<>>)
  IN  [i \in 1..Len(kept) |-> mergedRowToOrder(kept[i], companyId, platformId)]

\* index of the order getOrderByIds returns, 0 for undefined
getOrderByIds(orders, orderId, subOrderId) ==
  LET hits == IF Truthy(subOrderId)
              THEN {i \in 1..Len(orders) :
                      orders[i].orderId = orderId /\ orders[i].subOrderId = subOrderId}
              ELSE {i \in 1..Len(orders) :
                      \/ toLowerCase(ToText(orders[i].orderId)) = toLowerCase(ToText(orderId))
                      \/ toLowerCase(ToText(orders[i].subOrderId)) = toLowerCase(ToText(orderId))}
  IN  IF hits = {} THEN 0 ELSE MinOf(hits)

\* orders.find(o => o.id === id) in updateOrder
findOrderById(orders, id) ==
  LET hits == {i \in 1..Len(orders) : orders[i].id = id}
  IN  IF hits = {} THEN 0 ELSE MinOf(hits)

\* (order.cgst || 0) + (order.sgst || 0) + (order.igst || 0)
gstRefundOf(order) ==
  Num((IF Truthy(order.cgst) THEN order.cgst.n ELSE 0)
      + (IF Truthy(order.sgst) THEN order.sgst.n ELSE 0)
      + (IF Truthy(order.igst) THEN order.igst.n ELSE 0))

Returned == Str(<<"r", "e", "t", "u", "r", "n", "e", "d">>)

IdleReturn ==
  [pc |-> "idle", data |-> [orderId |-> EmptyStr, subOrderId |-> EmptyStr], id |-> 0,
   orders |-> <<>>, key |-> <<>>, updates |-> NoProps, existingRows |-> <<>>,
   outcome |-> "none"]

ReturnEnded(outcome) == [IdleReturn EXCEPT !.outcome = outcome]

ReturnInit ==
  /\ \E file \in ReturnFiles :
       LET rows == SheetRows(mergedRowsOf(<<>>,
                     mapRows(parseFile(file), ReturnHeaders, "gst").mergedRows, "gst"))
       IN  /\ store = [exists |-> TRUE, rows |-> rows, returns |-> {}]
           /\ log = [orders |-> ordersOfLedger(rows, ReturnCompany, ReturnPlatform),
                     returns |-> {}]
  /\ tasks = [t \in Tasks |-> IdleReturn]
  /\ ops = 0

\* handleCompleteReturn builds the data of an order the page found
ReturnInputs ==
  {[orderId |-> log.orders[i].orderId, subOrderId |-> log.orders[i].subOrderId] :
     i \in 1..Len(log.orders)}

\* addReturn up to its first await: the check against the returns state
AddReturn(t) ==
  /\ ops < MaxReturnOps
  /\ FreeSlot(t)
  /\ \E data \in ReturnInputs :
       tasks' = [tasks EXCEPT ![t] =
         IF \E r \in log.returns :
              r.orderId = data.orderId /\ r.subOrderId = data.subOrderId
         THEN ReturnEnded("exists")
         ELSE [IdleReturn EXCEPT !.pc = "setDoc", !.data = data, !.id = ops + 1,
                                 !.orders = log.orders]]
  /\ ops' = ops + 1
  /\ UNCHANGED <<store, log>>

\* await setDoc resolves; getOrderByIds and updateOrder's find, then the patch
SetDocDone(t) ==
  LET task  == tasks[t]
      found == getOrderByIds(task.orders, task.data.orderId, task.data.subOrderId)
      order == task.orders[findOrderById(task.orders, task.orders[found].id)]
  IN  /\ task.pc = "setDoc"
      /\ store' = [store EXCEPT !.returns =
                     @ \cup {[id |-> task.id, orderId |-> task.data.orderId,
                              subOrderId |-> task.data.subOrderId]}]
      /\ tasks' = [tasks EXCEPT ![t] =
           IF found = 0 THEN ReturnEnded("ok")
           ELSE [task EXCEPT !.pc = "read",
                   !.key = KeyOf(ToText(order.orderId),
                                 IF Truthy(order.subOrderId) THEN ToText(order.subOrderId)
                                 ELSE ToText(order.orderId)),
                   !.updates = [f \in {"status", "gstRefund"} |->
                                  IF f = "status" THEN Returned
                                  ELSE gstRefundOf(task.orders[found])]]]
      /\ UNCHANGED <<log, ops>>

\* updateOrderInMasterFile: await readMasterFile and the not-found checks
ReturnRead(t) ==
  /\ tasks[t].pc = "read"
  /\ \E result \in ReadResults(store) :
       LET r == readMasterFile(store, result)
       IN  tasks' = [tasks EXCEPT ![t] =
             IF r.threw \/ Len(r.rows) = 0 \/ findIndex(r.rows, tasks[t].key) = 0
             THEN ReturnEnded("update-failed")
             ELSE [@ EXCEPT !.pc = "write", !.existingRows = r.rows]]
  /\ UNCHANGED <<store, log, ops>>

\* updateOrderInMasterFile: await uploadBytes resolves
ReturnWrite(t) ==
  /\ tasks[t].pc = "write"
  /\ store' = [exists |-> TRUE,
               rows |-> SheetRows(updatedRowsOf(tasks[t].existingRows,
                                    findIndex(tasks[t].existingRows, tasks[t].key),
                                    tasks[t].updates)),
               returns |-> store.returns]
  /\ tasks' = [tasks EXCEPT ![t].pc = "reload"]
  /\ UNCHANGED <<log, ops>>

\* await uploadBytes rejects: addReturn throws after the return was recorded
ReturnWriteFailed(t) ==
  /\ tasks[t].pc = "write"
  /\ tasks' = [tasks EXCEPT ![t] = ReturnEnded("update-failed")]
  /\ UNCHANGED <<store, log, ops>>

\* updateOrder: await loadOrdersFromMasterFiles, setOrders
ReturnReload(t) ==
  /\ tasks[t].pc = "reload"
  /\ \E result \in ReadResults(store) :
       log' = [log EXCEPT !.orders = ordersOfLedger(ingestExistingRows(store, result),
                                                   ReturnCompany, ReturnPlatform)]
  /\ tasks' = [tasks EXCEPT ![t] = ReturnEnded("ok")]
  /\ UNCHANGED <<store, ops>>

\* the returns listener delivers the collection and the provider renders
ReturnsSnapshot ==
  /\ log.returns # store.returns
  /\ log' = [log EXCEPT !.returns = store.returns]
  /\ UNCHANGED <<store, tasks, ops>>

ReturnNext ==
  \/ ReturnsSnapshot
  \/ \E t \in Tasks :
       \/ AddReturn(t)
       \/ SetDocDone(t)
       \/ ReturnRead(t)
       \/ ReturnWrite(t)
       \/ ReturnWriteFailed(t)
       \/ ReturnReload(t)

SpecReturns == ReturnInit /\ [][ReturnNext]_vars

\* ------------------------------------------------------------------ C25
\* C25 (as claimed): when an addReturn call for an order of the ledger ends
\* well and no other call is in flight, the ledger record of the order has
\* status 'returned' and gstRefund cgst + sgst + igst of the order, and the
\* Order the reload produced for it carries the same status and gstRefund.
C25_ReturnStampVisible ==
  [][\A t \in Tasks :
       ( /\ tasks[t].pc = "reload" /\ tasks'[t].pc = "idle"
         /\ \A u \in Tasks \ {t} : tasks[u].pc = "idle" )
       => LET i == findIndex(store'.rows, tasks[t].key)
          IN  /\ i # 0
              /\ Val(store'.rows[i], "status") = Returned
              /\ Val(store'.rows[i], "gstRefund") = tasks[t].updates["gstRefund"]
              /\ \A k \in 1..Len(log'.orders) :
                   toLowerCase(log'.orders[k].id) = tasks[t].key =>
                     /\ log'.orders[k].status = Val(store'.rows[i], "status")
                     /\ log'.orders[k].gstRefund = Val(store'.rows[i], "gstRefund")]_vars

\* ------------------------------------------------------------------ C27
\* C27 (as claimed): the returns collection never holds two documents with
\* one orderId and subOrderId.
C27_OneReturnPerOrder ==
  \A r1, r2 \in store.returns :
    (r1.orderId = r2.orderId /\ r1.subOrderId = r2.subOrderId) => r1 = r2

\* ---- the dashboard: loadOrdersFromMasterFiles and the state it feeds
\* store is [bucket, companies, uploadedFiles]: the ledgers by address and the
\* two collections as the provider holds them; log is [orders, started]:
\* the orders state and the number of loads started so far

MaxLoadOps == 3

LoadHeaders == [orderId |-> "Order ID", productName |-> "Item"]

\* one-row sales sheets of two orders
LoadFiles ==
  { << [c \in {"Order ID", "Item"} |->
          CASE c = "Order ID" -> <<"A", "1">> [] c = "Item" -> <<"W">>] >>,
    << [c \in {"Order ID", "Item"} |->
          CASE c = "Order ID" -> <<"B", "2">> [] c = "Item" -> <<"G">>] >> }

\* the (company, platform) pairs of the companies array, in its order
RECURSIVE PairsOfCompanies(_)
PairsOfCompanies(companies) ==
  IF companies = <<>> THEN <<>>
  ELSE [i \in 1..Len(Head(companies).platforms) |->
          [companyId |-> Head(companies).id, platformId |-> Head(companies).platforms[i]]]
       \o PairsOfCompanies(Tail(companies))

\* uploadedFiles.forEach: a pair whose `${companyId}_${platformId}` was not
\* seen sets its master path in the map
RECURSIVE AddFilePairs(_, _, _)
AddFilePairs(map, platformSet, files) ==
  IF files = <<>> THEN map
  ELSE LET file == Head(files)
           key  == file.companyId \o <<"_">> \o file.platformId
           path == getMasterFilePath(file.companyId, file.platformId)
           hit  == {i \in 1..Len(map) : map[i].path = path}
           info == [path |-> path, companyId |-> file.companyId,
                    platformId |-> file.platformId]
       IN  IF key \in platformSet THEN AddFilePairs(map, platformSet, Tail(files))
           ELSE AddFilePairs(IF hit = {} THEN Append(map, info)
                             ELSE [map EXCEPT ![MinOf(hit)] = info],
                             platformSet \cup {key}, Tail(files))

\* companies.forEach: a pair is added when the map has no entry for its path
RECURSIVE AddCompanyPairs(_, _)
AddCompanyPairs(map, pairs) ==
  IF pairs = <<>> THEN map
  ELSE LET path == getMasterFilePath(Head(pairs).companyId, Head(pairs).platformId)
       IN  AddCompanyPairs(
             IF \E i \in 1..Len(map) : map[i].path = path THEN map
             ELSE Append(map, [path |-> path, companyId |-> Head(pairs).companyId,
                               platformId |-> Head(pairs).platformId]),
             Tail(pairs))

\* masterFileMap: its entries in insertion order
masterFileMap(companies, uploadedFiles) ==
  AddCompanyPairs(AddFilePairs(<<>>, {}, uploadedFiles), PairsOfCompanies(companies))

\* Promise.all without the try/catch around each read: one failure rejects
\* the load and the effect's catch clears the orders
RECURSIVE FlatOrders(_)
FlatOrders(arrays) ==
  IF arrays = <<>> THEN <<>> ELSE Head(arrays) \o FlatOrders(Tail(arrays))

loadedOrdersFailFast(map, seen) ==
  IF \E i \in 1..Len(map) : seen[i].how = "failed" THEN <<>>
  ELSE FlatOrders([i \in 1..Len(map) |->
         ordersOfLedger(seen[i].rows, map[i].companyId, map[i].platformId)])

\* what one read contributes: [] when the read threw or gave no rows
loadedOrders(map, seen) ==
  FlatOrders([i \in 1..Len(map) |->
    IF seen[i].how = "failed" \/ Len(seen[i].rows) = 0 THEN <<>>
    ELSE ordersOfLedger(seen[i].rows, map[i].companyId, map[i].platformId)])

IdleLoad ==
  [pc |-> "idle", seq |-> 0, companies |-> <<>>, uploadedFiles |-> <<>>,
   map |-> <<>>, pending |-> {}, seen |-> <<>>, reads |-> <<>>, result |-> <<>>]

LoadInit ==
  /\ store = [bucket |-> EmptyBucket,
              companies |-> << [id |-> <<"c", "1">>, platforms |-> << <<"p", "1">> >>] >>,
              uploadedFiles |-> <<>>]
  /\ tasks = [t \in Tasks |-> IdleLoad]
  /\ log = [orders |-> <<>>, started |-> 0]
  /\ ops = 0

\* loadOrdersFromMasterFiles is called: the map is built and the reads begin
StartedLoad(companies, uploadedFiles, seq) ==
  LET map == masterFileMap(companies, uploadedFiles)
  IN  [pc |-> "loading", seq |-> seq, companies |-> companies,
       uploadedFiles |-> uploadedFiles, map |-> map, pending |-> 1..Len(map),
       seen |-> [i \in 1..Len(map) |-> [how |-> "none", rows |-> <<>>]],
       reads |-> <<>>, result |-> <<>>]

\* the effect on [companies, uploadedFiles] after a change of either
Effect(t, st) ==
  IF Len(st.companies) > 0 /\ Len(st.uploadedFiles) > 0
  THEN /\ tasks' = [tasks EXCEPT ![t] =
                      StartedLoad(st.companies, st.uploadedFiles, log.started + 1)]
       /\ log' = [log EXCEPT !.started = @ + 1]
  ELSE /\ tasks' = tasks
       /\ log' = IF Len(st.companies) > 0 THEN [log EXCEPT !.orders = <<>>] ELSE log

\* an upload ran to its end: the ledger is merged, the uploadedFiles
\* listener delivers the new document and the effect runs
LoadUpload(t) ==
  /\ ops < MaxLoadOps
  /\ FreeSlot(t)
  /\ \E i \in 1..Len(PairsOfCompanies(store.companies)) : \E file \in LoadFiles :
       LET pair   == PairsOfCompanies(store.companies)[i]
           path   == getMasterFilePath(pair.companyId, pair.platformId)
           merged == mergedRowsOf(BucketRows(store.bucket, path),
                                  mapRows(parseFile(file), LoadHeaders, "sales").mergedRows,
                                  "sales")
           st     == [store EXCEPT
                        !.bucket = SetProp(@, path, [kind |-> "ledger",
                                                     rows |-> SheetRows(merged)]),
                        !.uploadedFiles = Append(@, pair)]
       IN  store' = st /\ Effect(t, st)
  /\ ops' = ops + 1

\* a platform is added to the company: the companies listener delivers it
\* and the effect runs
LoadAddPlatform(t) ==
  /\ ops < MaxLoadOps
  /\ FreeSlot(t)
  /\ Len(store.companies[1].platforms) = 1
  /\ LET st == [store EXCEPT !.companies[1].platforms = Append(@, <<"p", "2">>)]
     IN  store' = st /\ Effect(t, st)
  /\ ops' = ops + 1

\* updateOrder patched a record of an order of the state and reloads
LoadUpdateOrder(t) ==
  /\ ops < MaxLoadOps
  /\ FreeSlot(t)
  /\ Len(store.uploadedFiles) > 0
  /\ \E k \in 1..Len(log.orders) :
       LET order == log.orders[k]
           path  == getMasterFilePath(order.companyId, order.platformId)
           rows  == BucketRows(store.bucket, path)
           key   == KeyOf(ToText(order.orderId), ToText(order.subOrderId))
       IN  /\ findIndex(rows, key) # 0
           /\ store' = [store EXCEPT !.bucket = SetProp(@, path,
                          [kind |-> "ledger",
                           rows |-> SheetRows(updatedRowsOf(rows, findIndex(rows, key),
                                      [f \in {"status"} |-> Returned]))])]
  /\ tasks' = [tasks EXCEPT ![t] =
                 StartedLoad(store.companies, store.uploadedFiles, log.started + 1)]
  /\ log' = [log EXCEPT !.started = @ + 1]
  /\ ops' = ops + 1

\* one of the reads of a load settles: readMasterFile inside the try/catch
LoadRead(t) ==
  /\ tasks[t].pc = "loading"
  /\ \E i \in tasks[t].pending :
       LET path == tasks[t].map[i].path
           st   == [exists |-> path \in DOMAIN store.bucket,
                    rows |-> BucketRows(store.bucket, path)]
       IN  \E result \in ReadResults(st) :
             LET r == readMasterFile(st, result)
             IN  tasks' = [tasks EXCEPT
                   ![t].pending = @ \ {i},
                   ![t].reads = Append(@, path),
                   ![t].seen[i] = IF r.threw THEN [how |-> "failed", rows |-> <<>>]
                                  ELSE [how |-> IF result \in Genuine THEN "ok" ELSE "failed",
                                        rows |-> r.rows]]
  /\ UNCHANGED <<store, log, ops>>

\* Promise.all resolves: the arrays are flattened and setOrders gets them
LoadResolve(t) ==
  /\ tasks[t].pc = "loading"
  /\ tasks[t].pending = {}
  /\ LET result == loadedOrders(tasks[t].map, tasks[t].seen)
     IN  /\ tasks' = [tasks EXCEPT ![t].pc = "idle", ![t].result = result]
         /\ log' = [log EXCEPT !.orders = result]
  /\ UNCHANGED <<store, ops>>

LoadNext ==
  \E t \in Tasks :
    \/ LoadUpload(t)
    \/ LoadAddPlatform(t)
    \/ LoadUpdateOrder(t)
    \/ LoadRead(t)
    \/ LoadResolve(t)

SpecLoads == LoadInit /\ [][LoadNext]_vars

\* ------------------------------------------------------------------ C28
\* C28 (as claimed): once no load is in flight, the orders state is the
\* result of the load that was started last.
C28_NoStaleOrders ==
  ( /\ \A t \in Tasks : tasks[t].pc = "idle"
    /\ log.started > 0 )
  => \E t \in Tasks : tasks[t].seq = log.started /\ log.orders = tasks[t].result

\* ------------------------------------------------------------------ C30
\* the orders of a result that belong to one company and platform
OrdersOfPair(orders, companyId, platformId) ==
  SelectSeq(orders, LAMBDA o : o.companyId = companyId /\ o.platformId = platformId)

\* how often an address occurs among the reads of a load
ReadCount(reads, path) == Cardinality({i \in 1..Len(reads) : reads[i] = path})

\* the pairs a load was called with, from both arrays
PairsOfLoad(task) ==
  {task.uploadedFiles[i] : i \in 1..Len(task.uploadedFiles)}
    \cup {PairsOfCompanies(task.companies)[i] :
            i \in 1..Len(PairsOfCompanies(task.companies))}

\* C30: a load that resolves has read the ledger of every pair of its two
\* arrays once, its steps leave the bucket as it was, and its result holds
\* for every pair the orders of the ledger as it was read, none if the read
\* failed, whatever became of the other reads.
C30_LoadIsolation ==
  [][\A t \in Tasks :
       /\ (tasks[t].pc = "loading" /\ tasks'[t] # tasks[t]) => store' = store
       /\ (tasks[t].pc = "loading" /\ tasks'[t].pc = "idle") =>
            /\ \A pair \in PairsOfLoad(tasks[t]) :
                 ReadCount(tasks[t].reads,
                           getMasterFilePath(pair.companyId, pair.platformId)) = 1
            /\ \A i \in 1..Len(tasks[t].map) :
                 OrdersOfPair(log'.orders, tasks[t].map[i].companyId,
                              tasks[t].map[i].platformId)
                   = IF tasks[t].seen[i].how = "ok"
                     THEN ordersOfLedger(tasks[t].seen[i].rows, tasks[t].map[i].companyId,
                                         tasks[t].map[i].platformId)
                     ELSE <<>>]_vars

\* a load over two ledgers, one of a pair named by both arrays, ended with
\* the orders of the one after the read of the other had failed
C30_Witness ==
  \E t \in Tasks :
    /\ tasks[t].pc = "idle" /\ tasks[t].seq > 0
    /\ Len(tasks[t].map) = 2
    /\ \E i, j \in 1..2 :
         /\ tasks[t].seen[i].how = "failed"
         /\ tasks[t].seen[j].how = "ok" /\ Len(tasks[t].seen[j].rows) > 0
         /\ [companyId |-> tasks[t].map[j].companyId,
             platformId |-> tasks[t].map[j].platformId]
              \in {tasks[t].uploadedFiles[k] : k \in 1..Len(tasks[t].uploadedFiles)}
    /\ tasks[t].result # <<>>
    /\ log.orders = tasks[t].result

====
